---- MODULE Spec2Model ----
(***************************************************************************)
(* A model of src/app.py (Z.ai2api): the credential pool (class TokenPool) *)
(* with its rotation cursor, failure counters and cooldowns, and the       *)
(* normalizer of the streamed records (response.format) with its phase     *)
(* memory.                                                                 *)
(***************************************************************************)
EXTENDS Integers, Sequences, FiniteSets, TLC

(* ------------------------------------------------------------------ *)
(* Bounds of the model                                                 *)
(* ------------------------------------------------------------------ *)

\* longest list handed to update() or to the constructor
MaxLen == 2
\* the clock takes the values 0..MaxClock
MaxClock == 2
\* the failure threshold given to the constructor ranges over 0..MaxThreshold
MaxThreshold == 2
\* mark_failure is not taken once a credential's failure count is MaxFail
MaxFail == 2
\* mark_success is not taken once a credential's success count is MaxSucc
MaxSucc == 1
\* the longest run of consecutive get() calls that is recorded
MaxRun == 4
\* the longest text of a record made of the common pieces
MaxText == 2
\* the longest text of a record made of any pieces
MaxRare == 1
\* the most newlines between a close marker and the text after it
MaxNl == 4
\* the most records of one stream, when two streams are read at a time
MaxEvents == 2
\* the longest text after the prefix of a line of the upstream stream
MaxBody == 2
\* the most lines read from one upstream stream
MaxLines == 2
\* the most calls of RequestMetrics.record with any arguments
MaxRecords == 2
\* the most calls of RequestMetrics.record when the window is filled
WindowCalls == 150
\* the most calls of the upstream that are followed
MaxCalls == 1
\* the most calls of _update_token_pool that one thread makes
MaxUpdates == 1
\* the most calls of _finalize_upstream_response for one response
MaxFinalize == 2
\* the calls of RequestMetrics.record with several arguments just before the
\* window is full, and as many just after
MaxMixed == 3

(* ------------------------------------------------------------------ *)
(* Values                                                              *)
(* ------------------------------------------------------------------ *)

\* Python's None, where a credential (or nothing) is expected
None == "None"
\* the credential strings the model uses; "" is the empty string
Creds == {"A", "B"}
Alphabet == Creds \cup {""}
\* what a caller may hand to mark_success / mark_failure
MarkArgs == Alphabet \cup {None}
\* the lists a caller may hand to update()
Lists == UNION {[1..n -> Alphabet] : n \in 0..MaxLen}
\* the lists the constructor is called with (_parse_token_pool drops empty strings)
InitLists == UNION {[1..n -> Creds] : n \in 0..MaxLen}

\* TOKEN_POOL_RESET_FAILURES: the cooldown, in clock ticks
TOKEN_POOL_RESET_FAILURES == 2

Range(s) == {s[i] : i \in DOMAIN s}

\* Python dictionaries are functions on the set of their keys
EmptyDict == [k \in {} |-> 0]
DictGet(d, k, default) == IF k \in DOMAIN d THEN d[k] ELSE default
DictPut(d, k, v) == [x \in (DOMAIN d) \cup {k} |-> IF x = k THEN v ELSE d[x]]
DictPop(d, k) == [x \in (DOMAIN d) \ {k} |-> d[x]]
DictSetDefault(d, k, v) == IF k \in DOMAIN d THEN d ELSE DictPut(d, k, v)

\* _token_identifier: a keyed hash of the credential ("" for the empty string)
TokenIdentifier(t) == IF t = "" THEN "" ELSE "hmac:" \o t

\* no text
NoText == <<>>
\* no record was read yet
NoChunk == [shape |-> "none"]
\* response.format has returned nothing yet
NoDelta == [kind |-> "idle", text |-> NoText]

VARIABLES
    tokens,             \* TokenPool._tokens: the credential list
    index,              \* TokenPool._index: the rotation cursor
    failure_threshold,  \* TokenPool._failure_threshold
    failures,           \* TokenPool._failures
    disabled,           \* TokenPool._disabled: credential -> time it was disabled
    successes,          \* TokenPool._successes
    token_ids,          \* TokenPool._token_ids: identity -> credential
    now,                \* datetime.now()
    pending,            \* mark calls that passed the membership test and wait for the lock
    ret,                \* what the last call returned, when that call was get()
    streak,             \* history: consecutive mark_failure(c) calls per credential
    hitAt,              \* history: when the streak of c became exactly the threshold
                        \*   (kept: forgotten when c leaves the pool or get() clears all)
    run,                \* history: the current run of consecutive get() calls
    scen,               \* history: progress through the scenario of two credentials
    last,               \* history: the last call, when it was update() or the constructor:
                        \*   its input (kept under "ops"), or whether the input had the
                        \*   credentials of the list (same) and whether the list changed
                        \*   (moved) (kept under "same")
    watch,              \* the histories that are kept
    snap,               \* what the last call returned, when that call was snapshot()
    phaseBak,           \* the module-level phaseBak: the phase of the last record formatted
    think,              \* cfg.api.think: the rendering mode (THINK_TAGS_MODE)
    pc,                 \* where the loop over the upstream stream stands
    chunk,              \* raw_chunk: the record response.parse yielded last
    delta,              \* what response.format returned for it
    canon,              \* history: the text of the record after the thinking-block
                        \*   extraction, before the rendering mode is applied
    phaseWas,           \* history: phaseBak as response.format found it
    scene,              \* history: the deltas of the scenario of two records so far
    boundary,           \* history: the streams opened so far, the phase the last
                        \*   record with a text had left when this stream was
                        \*   opened, and what this stream has formatted so far
    sess,               \* two requests whose streams are read at the same time: for
                        \*   each its place in the loop, its record, the values of
                        \*   phaseBak it has read, its delta and (history) its records
                        \*   so far and the record that wrote the value it read
    memory,             \* history: the record whose format call wrote phaseBak last
    parser,             \* the generator response.parse(stream): its place, the line
                        \*   in hand, how many lines it has read, and (history) what
                        \*   it has yielded and what the lines read so far call for
    request_metrics,    \* the fields of the RequestMetrics instance (line 391)
    metrics_ret,        \* what the last call of it returned, with (history) the
                        \*   arguments when that call was record()
    call,               \* the request being handled: where its upstream call stands,
                        \*   g.current_token_info, the status of the response and its
                        \*   _metrics_context["finalized"], and (history) the number of
                        \*   calls so far, how this one ended and what was reported
    disk,               \* the state file TOKEN_POOL_STATE_FILE
    persist,            \* the threads in _update_token_pool: where each stands
    locks,              \* TokenPool._lock and RequestMetrics._lock: the thread that
                        \*   holds each, if any
    threads             \* the request threads: the handler each runs, the step it is
                        \*   at, and whether it is inside a `with self._lock:` block
                        \*   or inside a call of the network or the file system

poolVars == <<tokens, index, failure_threshold, failures, disabled, successes, token_ids>>
histVars == <<streak, hitAt, run, scen, last>>
fmtVars == <<phaseBak, think, pc, chunk, delta, canon, phaseWas, scene, boundary>>
vars == <<tokens, index, failure_threshold, failures, disabled, successes, token_ids,
          now, pending, ret, streak, hitAt, run, scen, last, watch,
          snap, phaseBak, think, pc, chunk, delta, canon, phaseWas, scene, boundary,
          sess, memory, parser, request_metrics, metrics_ret, call, disk, persist,
          locks, threads>>

\* the state of the parts of the program other than the pool and the loop of
\* one stream
sessVars == <<sess, memory>>
parseVars == <<parser>>
metricVars == <<request_metrics, metrics_ret>>
callVars == <<call>>
persistVars == <<disk, persist>>
lockVars == <<locks, threads>>
sideVars == <<sessVars, parseVars, metricVars, callVars, persistVars, lockVars>>

\* the value of ret after a call that is not get()
NoCall == "-"

(* ------------------------------------------------------------------ *)
(* TokenPool: the pure parts                                           *)
(* ------------------------------------------------------------------ *)

Max(a, b) == IF a >= b THEN a ELSE b

(* Each operator below whose comment starts with "faulty variant" is a wrong  *)
(* version of the operator that follows it; the claims are tried against it   *)
(* to see that they tell the two apart. No action uses a faulty variant.      *)

\* faulty variant of IsCooling: the cooldown ends one tick early
IsCoolingShort(dis, t, clock) ==
    t \in DOMAIN dis /\ clock - dis[t] < TOKEN_POOL_RESET_FAILURES - 1

\* _available_tokens, the test of one credential: it is skipped when it has a
\* disabled_at and less than the cooldown has passed since
IsCooling(dis, t, clock) ==
    t \in DOMAIN dis /\ clock - dis[t] < TOKEN_POOL_RESET_FAILURES

\* _available_tokens: the credentials of the list, in list order, whose cooldown
\* (if any) has elapsed
AvailableTokens(toks, dis, clock) ==
    SelectSeq(toks, LAMBDA t : ~IsCooling(dis, t, clock))

\* faulty variant of GetDisabled: nothing is cleared
GetDisabledKept(toks, dis, clock) == dis

\* get(), lines 150-153: with nothing available every disabled_at is cleared
GetDisabled(toks, dis, clock) ==
    IF AvailableTokens(toks, dis, clock) = <<>> THEN EmptyDict ELSE dis

\* faulty variant of GetAvailable: not recomputed after the clear
GetAvailableOnce(toks, dis, clock) == AvailableTokens(toks, dis, clock)

\* get(), lines 150-153: the available credentials, recomputed after the clear
GetAvailable(toks, dis, clock) ==
    AvailableTokens(toks, GetDisabled(toks, dis, clock), clock)

\* faulty variant of GetToken: the cursor is ignored
GetTokenFirst(avail, idx) ==
    IF avail = <<>> THEN None ELSE avail[1]

\* get(), lines 154-156: the credential returned (sequences are 1-based here)
GetToken(avail, idx) ==
    IF avail = <<>> THEN None ELSE avail[(idx % Len(avail)) + 1]

\* faulty variant of GetIndex: the cursor advances without wrapping
GetIndexNoWrap(avail, idx) ==
    IF avail = <<>> THEN idx ELSE idx + 1

\* faulty variant of GetIndex: the cursor does not advance
GetIndexStuck(avail, idx) == idx

\* get(), line 157: the cursor afterwards
GetIndex(avail, idx) ==
    IF avail = <<>> THEN idx ELSE (idx + 1) % Len(avail)

\* mark_success / mark_failure, the test made before the lock is taken
MarkAccepted(t, toks) == t # None /\ t # "" /\ t \in Range(toks)

\* faulty variant of FailureCount: the count is not incremented
FailureCountKept(fail, t) == DictGet(fail, t, 0)

\* mark_failure: the new failure count
FailureCount(fail, t) == DictGet(fail, t, 0) + 1

\* faulty variant of FailureDisabled: disabled only above the threshold
FailureDisabledLate(dis, count, threshold, t, clock) ==
    IF count > threshold THEN DictPut(dis, t, clock) ELSE dis

\* mark_failure: the credential is disabled when the count reaches the threshold
FailureDisabled(dis, count, threshold, t, clock) ==
    IF count >= threshold THEN DictPut(dis, t, clock) ELSE dis

\* update(), lines 179-184: the input without empty strings and repetitions,
\* in the order of first occurrence
RECURSIVE UniqueFrom(_, _)
UniqueFrom(list, acc) ==
    IF list = <<>> THEN acc
    ELSE LET t == Head(list)
         IN UniqueFrom(Tail(list),
                       IF t # "" /\ t \notin Range(acc) THEN Append(acc, t) ELSE acc)

\* faulty variant of Unique: empty strings are kept
RECURSIVE UniqueWithEmptyFrom(_, _)
UniqueWithEmptyFrom(list, acc) ==
    IF list = <<>> THEN acc
    ELSE LET t == Head(list)
         IN UniqueWithEmptyFrom(Tail(list),
                                IF t \notin Range(acc) THEN Append(acc, t) ELSE acc)
UniqueWithEmpty(list) == UniqueWithEmptyFrom(list, <<>>)

Unique(list) == UniqueFrom(list, <<>>)

\* update(), line 188: the identity map of the new list
UpdateTokenIds(toks) ==
    [i \in {TokenIdentifier(t) : t \in Range(toks)} |->
        CHOOSE t \in Range(toks) : TokenIdentifier(t) = i]

\* update(), lines 189-190: the keys pruned are the keys of _failures that are
\* not in the new list
PrunedKeys(fail, toks) == {k \in DOMAIN fail : k \notin Range(toks)}

\* faulty variant of UpdateFailures: every count of the new list starts at 0
UpdateFailuresReset(fail, toks) == [k \in Range(toks) |-> 0]

\* update(), lines 189-196 on _failures
UpdateFailures(fail, toks) ==
    [k \in ((DOMAIN fail) \ PrunedKeys(fail, toks)) \cup Range(toks) |->
        IF k \in DOMAIN fail THEN fail[k] ELSE 0]

\* update(), lines 189-193 on _disabled
UpdateDisabled(dis, fail, toks) ==
    [k \in (DOMAIN dis) \ PrunedKeys(fail, toks) |-> dis[k]]

\* update(), lines 189-196 on _successes
UpdateSuccesses(succ, fail, toks) ==
    [k \in ((DOMAIN succ) \ PrunedKeys(fail, toks)) \cup Range(toks) |->
        IF k \in DOMAIN succ THEN succ[k] ELSE 0]

\* _token_display_from_id: the masked form shown for a credential
TokenDisplayFromId(id) == IF id = "" THEN "token" ELSE "token:" \o id

\* snapshot(), lines 218-223: the seconds of cooldown left, 0 without a
\* disabled_at or when nothing is left (the clock counts whole ticks, so the
\* rounding of line 223 is the rounding of a whole number)
CooldownSeconds(dis, t, clock) ==
    IF t \in DOMAIN dis
    THEN LET remaining == TOKEN_POOL_RESET_FAILURES - (clock - dis[t])
         IN IF remaining > 0 THEN Max(0, remaining) ELSE 0
    ELSE 0

\* snapshot(), lines 216-234: the entry of the credential at position idx
\* (last_disabled_at is the time itself, -1 where the program reports None)
SnapshotItem(toks, fail, succ, dis, clock, idx) ==
    LET t == toks[idx]
    IN [token_id |-> TokenIdentifier(t),
        display |-> TokenDisplayFromId(TokenIdentifier(t)),
        index |-> idx - 1,
        failures |-> DictGet(fail, t, 0),
        successes |-> DictGet(succ, t, 0),
        disabled |-> t \notin Range(AvailableTokens(toks, dis, clock)),
        cooldown_seconds |-> CooldownSeconds(dis, t, clock),
        last_disabled_at |-> DictGet(dis, t, 0 - 1)]

\* snapshot(), lines 235-239: what is returned
SnapshotReport(toks, idx, fail, succ, dis, clock) ==
    [size |-> Len(toks),
     next_index |-> idx,
     tokens |-> [i \in 1..Len(toks) |-> SnapshotItem(toks, fail, succ, dis, clock, i)]]

\* faulty variant of SnapshotPool: the cooldowns that have elapsed are cleared
SnapshotPoolClearing ==
    /\ disabled' = [k \in {t \in DOMAIN disabled : IsCooling(disabled, t, now)} |->
                       disabled[k]]
    /\ UNCHANGED <<tokens, index, failure_threshold, failures, successes, token_ids>>

\* snapshot(), lines 211-239, on the fields of the pool: it only reads them
SnapshotPool == UNCHANGED poolVars

(* ------------------------------------------------------------------ *)
(* TokenPool: the operations, each one the part done under the lock     *)
(* ------------------------------------------------------------------ *)

\* faulty variant of GetStep: the fail-open reset forgets the failures too
GetStepForgetting ==
    LET avail == GetAvailable(tokens, disabled, now)
    IN /\ disabled' = GetDisabled(tokens, disabled, now)
       /\ index' = GetIndex(avail, index)
       /\ ret' = GetToken(avail, index)
       /\ failures' = IF GetDisabled(tokens, disabled, now) # disabled
                         THEN [k \in DOMAIN failures |-> 0] ELSE failures
       /\ UNCHANGED <<tokens, failure_threshold, successes, token_ids>>

\* get(): after the lock is taken
GetStep ==
    LET avail == GetAvailable(tokens, disabled, now)
    IN /\ disabled' = GetDisabled(tokens, disabled, now)
       /\ index' = GetIndex(avail, index)
       /\ ret' = GetToken(avail, index)
       /\ UNCHANGED <<tokens, failure_threshold, failures, successes, token_ids>>

\* faulty variant of MarkSuccessBody: disabled_at is kept
MarkSuccessBodyStillDisabled(t) ==
    /\ successes' = DictPut(successes, t, DictGet(successes, t, 0) + 1)
    /\ failures' = DictPop(failures, t)
    /\ UNCHANGED <<tokens, index, failure_threshold, disabled, token_ids>>

\* mark_success(t): lines 163-166
MarkSuccessBody(t) ==
    /\ successes' = DictPut(successes, t, DictGet(successes, t, 0) + 1)
    /\ failures' = DictPop(failures, t)
    /\ disabled' = DictPop(disabled, t)
    /\ UNCHANGED <<tokens, index, failure_threshold, token_ids>>

\* mark_failure(t): lines 171-176
MarkFailureBody(t) ==
    LET count == FailureCount(failures, t)
    IN /\ failures' = DictPut(failures, t, count)
       /\ successes' = DictSetDefault(successes, t, 0)
       /\ disabled' = FailureDisabled(disabled, count, failure_threshold, t, now)
       /\ UNCHANGED <<tokens, index, failure_threshold, token_ids>>

\* update(list): lines 179-196
UpdateStep(list) ==
    LET unique == Unique(list)
    IN /\ tokens' = unique
       /\ index' = 0
       /\ token_ids' = UpdateTokenIds(unique)
       /\ failures' = UpdateFailures(failures, unique)
       /\ disabled' = UpdateDisabled(disabled, failures, unique)
       /\ successes' = UpdateSuccesses(successes, failures, unique)
       /\ ret' = NoCall
       /\ UNCHANGED failure_threshold

\* the counters are unbounded in the program; the model stops counting here
CanSucceed(t) == DictGet(successes, t, 0) < MaxSucc
CanFail(t) == DictGet(failures, t, 0) < MaxFail

(* ------------------------------------------------------------------ *)
(* response.format: texts                                              *)
(*                                                                     *)
(* A text is a sequence of pieces. A piece is a newline, a space, one   *)
(* of the markers the regular expressions of response.format look for, *)
(* or "w", a character that is none of these.                          *)
(* ------------------------------------------------------------------ *)

Nl == "\n"
\* an opening tag <details ...> with its attributes, and the closing tag
DetailsOpen == "<details>"
DetailsClose == "</details>"
SummaryOpen == "<summary>"
SummaryClose == "</summary>"
\* the canonical markers (lines 2087-2088)
ReasoningOpen == "<reasoning>"
ReasoningClose == "</reasoning>"
\* the think-tag spelling (lines 2114-2115)
ThinkOpen == "<think>"
ThinkClose == "</think>"
\* the collapsible wrapper of mode details (lines 2122, 2135)
WrapperOpen == "<details type=\"reasoning\" open><div>"
DivClose == "</div>"
\* a quote prefix, the character > at the start of a line
Quote == ">"
\* the text duration="7", and what line 2134 makes of it
Duration == "duration=\"7\""
ThoughtFor == "Thought for 7 seconds"
\* a backslash with a letter after it that re.sub does not accept in a
\* replacement, such as \d
BadEscape == "\\d"
\* the tags removed by line 2081
DeprecatedTags == {"</thinking>", "<Full>", "</Full>"}
\* the wrapper of a tool call: <glm_block ...>{"type": "mcp", "data": {"metadata": {
\* then ", "result": "" or null, "display_result": "" and </glm_block>
GlmOpen == "<glm_block>{meta"
GlmResult == "\", \"result\": \"\""
GlmDisplay == "null, \"display_result\": \"\""
GlmClose == "</glm_block>"
\* what lines 2073 and 2077 put in their place
BraceOpen == "{"
QuoteBrace == "\"}"

\* the pieces matched by \s
Blank == {Nl, " "}
\* the pieces that contain the characters summary>
HasSummaryMark == {SummaryOpen, SummaryClose}
\* the pieces that contain the characters glm_block
HasGlmBlock == {GlmOpen, GlmClose}

\* the number of newlines a text starts with
RECURSIVE LeadNl(_)
LeadNl(s) == IF s # <<>> /\ Head(s) = Nl THEN 1 + LeadNl(Tail(s)) ELSE 0

\* s without its first n pieces
Drop(s, n) == SubSeq(s, n + 1, Len(s))

\* str.lstrip('\n')
LStripNl(s) == Drop(s, LeadNl(s))

\* the position of the first piece of s that is in xs, 0 when there is none
FirstIn(s, xs) ==
    IF \E i \in 1..Len(s) : s[i] \in xs
    THEN CHOOSE i \in 1..Len(s) : s[i] \in xs /\ \A j \in 1..(i - 1) : s[j] \notin xs
    ELSE 0

\* str.replace(x, repl) for a piece x; re.sub of a pattern that is one piece
RECURSIVE Replace(_, _, _)
Replace(s, xs, repl) ==
    IF s = <<>> THEN <<>>
    ELSE (IF Head(s) \in xs THEN repl ELSE <<Head(s)>>) \o Replace(Tail(s), xs, repl)

\* re.sub(r"\n*X", repl, s) for the pieces X of xs
RECURSIVE SubNlThen(_, _, _)
SubNlThen(s, xs, repl) ==
    IF s = <<>> THEN <<>>
    ELSE LET k == LeadNl(s)
             rest == Drop(s, k)
         IN IF rest # <<>> /\ Head(rest) \in xs
               THEN repl \o SubNlThen(Tail(rest), xs, repl)
            ELSE IF k > 0
               THEN SubSeq(s, 1, k) \o SubNlThen(rest, xs, repl)
            ELSE <<Head(s)>> \o SubNlThen(Tail(s), xs, repl)

\* re.sub(r"X\n*", repl, s) for the pieces X of xs
RECURSIVE SubThenNl(_, _, _)
SubThenNl(s, xs, repl) ==
    IF s = <<>> THEN <<>>
    ELSE IF Head(s) \in xs
       THEN repl \o SubThenNl(LStripNl(Tail(s)), xs, repl)
    ELSE <<Head(s)>> \o SubThenNl(Tail(s), xs, repl)

\* re.sub(r"(?s)<details[^>]*?>.*?</details>", "", s): each opening tag is
\* removed with everything up to the first closing tag after it
RECURSIVE RemoveBlocks(_)
RemoveBlocks(s) ==
    IF s = <<>> THEN <<>>
    ELSE LET j == FirstIn(Tail(s), {DetailsClose})
         IN IF Head(s) = DetailsOpen /\ j > 0
               THEN RemoveBlocks(Drop(s, j + 1))
               ELSE <<Head(s)>> \o RemoveBlocks(Tail(s))

\* where <summary>.*?</summary> ends when s starts with <summary>: the position
\* of the first </summary>, reached without crossing a newline; 0 when there is none
SummaryEnd(s) ==
    LET j == FirstIn(Tail(s), {SummaryClose, Nl})
    IN IF s # <<>> /\ Head(s) = SummaryOpen /\ j > 0 /\ s[j + 1] = SummaryClose
       THEN j + 1 ELSE 0

\* re.sub(r"\n*<summary>.*?</summary>\n*", repl, s)
RECURSIVE SubSummary(_, _)
SubSummary(s, repl) ==
    IF s = <<>> THEN <<>>
    ELSE LET k == LeadNl(s)
             rest == Drop(s, k)
             e == SummaryEnd(rest)
         IN IF e > 0
               THEN repl \o SubSummary(LStripNl(Drop(rest, e)), repl)
            ELSE IF k > 0
               THEN SubSeq(s, 1, k) \o SubSummary(rest, repl)
            ELSE <<Head(s)>> \o SubSummary(Tail(s), repl)

\* re.sub(r"\n>\s?", "\n", s): the quote prefix of a line, with one blank after it
RECURSIVE SubQuote(_)
SubQuote(s) ==
    IF s = <<>> THEN <<>>
    ELSE IF Len(s) >= 2 /\ s[1] = Nl /\ s[2] = Quote
       THEN <<Nl>> \o SubQuote(Drop(s, IF Len(s) >= 3 /\ s[3] \in Blank THEN 3 ELSE 2))
    ELSE <<Head(s)>> \o SubQuote(Tail(s))

\* where X.*</glm_block> ends when s starts with X: the position of the last
\* </glm_block> of the line; 0 when there is none
GlmEnd(s, x) ==
    LET n == FirstIn(Tail(s), {Nl})
        line == IF n > 0 THEN SubSeq(s, 1, n) ELSE s
        ends == {i \in 2..Len(line) : line[i] = GlmClose}
    IN IF s # <<>> /\ Head(s) = x /\ ends # {}
       THEN CHOOSE i \in ends : \A j \in ends : j <= i
       ELSE 0

\* re.sub(r"X.*</glm_block>", repl, s)
RECURSIVE SubGlm(_, _, _)
SubGlm(s, x, repl) ==
    IF s = <<>> THEN <<>>
    ELSE LET e == GlmEnd(s, x)
         IN IF e > 0
               THEN repl \o SubGlm(Drop(s, e), x, repl)
               ELSE <<Head(s)>> \o SubGlm(Tail(s), x, repl)

(* ------------------------------------------------------------------ *)
(* response.format: the records it is given and what it computes       *)
(* ------------------------------------------------------------------ *)

\* a key that the record does not have
Absent == [kind |-> "absent", text |-> NoText]
\* a value that is a number, such as 5
Number == [kind |-> "number", text |-> <<"5">>]
\* a value that is the text t
Text(t) == [kind |-> "text", text |-> t]

\* the phases of the upstream, and one it does not know
KnownPhases == {"thinking", "answer", "tool_call", "other"}
Phases == KnownPhases \cup {"done"}
\* the rendering modes, and one that is not recognized
Modes == {"reasoning", "think", "strip", "details", "other"}

\* Python's truth value of a field: a missing key, "" and 0 are false
Truthy(v) == v.kind = "number" \/ (v.kind = "text" /\ v.text # <<>>)

\* line 2066: the phase, "other" when the key is missing
ChunkPhase(rec) == IF rec.phase = "absent" THEN "other" ELSE rec.phase

\* line 2067: delta_content, else edit_content, else ""
ChunkContent(rec) ==
    IF Truthy(rec.delta_content) THEN rec.delta_content
    ELSE IF Truthy(rec.edit_content) THEN rec.edit_content
    ELSE Text(<<>>)

\* faulty variant of Reclassified: the previous phase is not looked at
ReclassifiedAlways(phase, prev, content) ==
    phase = "other" /\ \E i \in 1..Len(content) : content[i] \in HasGlmBlock

\* line 2075: an "other" record after a tool_call record that holds glm_block
Reclassified(phase, prev, content) ==
    phase = "other" /\ prev = "tool_call" /\ \E i \in 1..Len(content) : content[i] \in HasGlmBlock

\* lines 2072-2077: the phase after the reclassification
ToolPhase(phase, prev, content) ==
    IF Reclassified(phase, prev, content) THEN "tool_call" ELSE phase

\* lines 2072-2077: the text with the wrapper of a tool call cut away
ToolText(phase, prev, content) ==
    IF phase = "tool_call"
       THEN SubGlm(SubNlThen(content, {GlmOpen}, <<BraceOpen>>), GlmResult, <<>>)
    ELSE IF Reclassified(phase, prev, content)
       THEN SubGlm(content, GlmDisplay, <<QuoteBrace>>)
    ELSE content

\* line 2079: the thinking-block extraction is done for a thinking record and
\* for an answer record whose text holds summary>
Extracts(phase, content) ==
    \/ phase = "thinking"
    \/ phase = "answer" /\ \E i \in 1..Len(content) : content[i] \in HasSummaryMark

\* lines 2080-2088: blocks and deprecated tags removed, the summary of a
\* thinking record turned into a blank line, the markers made canonical
Canonical(phase, content) ==
    LET c1 == RemoveBlocks(content)
        c2 == Replace(c1, DeprecatedTags, <<>>)
        c3 == IF phase = "thinking" THEN SubSummary(c2, <<Nl, Nl>>) ELSE c2
        c4 == SubThenNl(c3, {DetailsOpen}, <<ReasoningOpen, Nl, Nl>>)
    IN SubNlThen(c4, {DetailsClose}, <<Nl, Nl, ReasoningClose>>)

\* line 2091: whether the text holds a canonical close marker, the text up to
\* and with the first one, and the text after it
Matched(content) == FirstIn(content, {ReasoningClose}) > 0
Before(content) == SubSeq(content, 1, FirstIn(content, {ReasoningClose}))
After(content) == Drop(content, FirstIn(content, {ReasoningClose}))

\* line 2094: after.strip() is not empty
NotBlank(t) == \E i \in 1..Len(t) : t[i] \notin Blank

\* faulty variant of Splice: nothing is suppressed after an answer record
SpliceNoSuppress(content, prev) ==
    IF ~Matched(content) THEN content
    ELSE IF NotBlank(After(content))
       THEN IF prev = "thinking"
               THEN <<Nl, Nl, ReasoningClose, Nl, Nl>> \o LStripNl(After(content))
               ELSE content
    ELSE <<Nl, Nl, ReasoningClose>>

\* lines 2090-2104, for an answer record: the text at the close marker
Splice(content, prev) ==
    IF ~Matched(content) THEN content
    ELSE IF NotBlank(After(content))
       THEN IF prev = "thinking"
               THEN <<Nl, Nl, ReasoningClose, Nl, Nl>> \o LStripNl(After(content))
            ELSE IF prev = "answer" THEN <<>>
            ELSE content
    ELSE <<Nl, Nl, ReasoningClose>>

\* lines 2079-2104: the text after the thinking-block extraction
Extracted(phase, prev, content) ==
    IF phase = "answer" THEN Splice(Canonical(phase, content), prev)
    ELSE Canonical(phase, content)

\* lines 2126-2134: the summary that mode details appends, from the text before
\* the close marker
Thoughts(before) ==
    LET i == FirstIn(before, {SummaryOpen})
        j == FirstIn(Drop(before, i), {SummaryClose})
    IN IF i > 0 /\ j > 0 THEN <<Nl, Nl>> \o SubSeq(before, i, i + j)
       ELSE IF \E k \in 1..Len(before) : before[k] = Duration
          THEN <<Nl, Nl, SummaryOpen, ThoughtFor, SummaryClose>>
       ELSE <<>>

\* lines 2107, 2112, 2121: the quote prefixes of a thinking record are removed
Unquoted(phase, content) == IF phase = "thinking" THEN SubQuote(content) ELSE content

\* lines 2124-2135: mode details reads `before` for an answer record, a name
\* that is bound only when line 2092 found a close marker (UnboundLocalError
\* otherwise), and hands the summary to re.sub as part of the replacement,
\* which rejects a bad escape in it (re.error)
RenderRaises(mode, phase, canonical) ==
    /\ mode = "details"
    /\ phase = "answer"
    /\ \/ ~Matched(canonical)
       \/ \E i \in 1..Len(Thoughts(Before(canonical))) :
             Thoughts(Before(canonical))[i] = BadEscape

\* lines 2106-2138: the rendering mode applied to the extracted text;
\* canonical is the text line 2091 looked at
Render(mode, phase, content, canonical) ==
    IF mode = "reasoning"
       THEN SubNlThen(SubThenNl(SubSummary(Unquoted(phase, content), <<>>),
                                {ReasoningOpen}, <<>>),
                      {ReasoningClose}, <<>>)
    ELSE IF mode = "think"
       THEN Replace(Replace(SubSummary(Unquoted(phase, content), <<>>),
                            {ReasoningOpen}, <<ThinkOpen>>),
                    {ReasoningClose}, <<ThinkClose>>)
    ELSE IF mode = "strip"
       THEN Replace(SubThenNl(SubSummary(content, <<>>), {ReasoningOpen}, <<>>),
                    {ReasoningClose}, <<>>)
    ELSE IF mode = "details"
       THEN LET thoughts == IF phase = "answer" THEN Thoughts(Before(canonical))
                            ELSE <<>>
            IN Replace(Replace(Unquoted(phase, content), {ReasoningOpen}, <<WrapperOpen>>),
                       {ReasoningClose}, <<DivClose>> \o thoughts \o <<DetailsClose>>)
    ELSE Replace(content, {ReasoningClose}, <<ReasoningClose, Nl, Nl>>)

\* repr(content): the text between quotes, never empty
Repr(content) == <<"'">> \o content \o <<"'">>

\* faulty variant of DeltaKind: the rendering mode is not looked at
DeltaKindAnyMode(phase, mode, content) ==
    IF phase = "thinking" THEN "reasoning_content"
    ELSE IF phase = "tool_call" THEN "tool_call"
    ELSE IF Repr(content) # <<>> THEN "content"
    ELSE "none"

\* lines 2147-2156: the kind of delta returned (with type "Anthropic" the
\* same kinds are spelled thinking_delta and text_delta)
DeltaKind(phase, mode, content) ==
    IF phase = "thinking" /\ mode = "reasoning" THEN "reasoning_content"
    ELSE IF phase = "tool_call" THEN "tool_call"
    ELSE IF Repr(content) # <<>> THEN "content"
    ELSE "none"

\* a content that is a number reaches a regular expression or an `in` test,
\* which raise TypeError for it (lines 2073, 2075, 2079, 2080)
NumberRaises(phase, prev) ==
    \/ phase \in {"tool_call", "thinking", "answer"}
    \/ phase = "other" /\ prev = "tool_call"

\* what one call of response.format comes to: the delta (kind "none" for the
\* return value None, kind "raise" for an exception), phaseBak afterwards and
\* the text after the thinking-block extraction
Raised(prev) == [kind |-> "raise", text |-> NoText, phase |-> prev, canon |-> NoText]

\* faulty variant of Nothing: a content delta with empty text is returned
NothingAsContent(prev) ==
    [kind |-> "content", text |-> NoText, phase |-> prev, canon |-> NoText]

\* lines 2065, 2068: return None
Nothing(prev) == [kind |-> "none", text |-> NoText, phase |-> prev, canon |-> NoText]

\* faulty variant of FormatText: phaseBak is set to the phase of the record
\* before the text is computed, so the decisions read the record's own phase
FormatTextWriteFirst(phase0, content0, prev, mode) ==
    LET phase == ToolPhase(phase0, phase0, content0)
        content1 == ToolText(phase0, phase0, content0)
        extracts == Extracts(phase, content1)
        canonical == IF extracts THEN Canonical(phase, content1) ELSE content1
        extracted == IF extracts THEN Extracted(phase, phase0, content1) ELSE content1
        content == IF extracts THEN Render(mode, phase, extracted, canonical) ELSE content1
    IN IF extracts /\ RenderRaises(mode, phase, canonical) THEN Raised(prev)
       ELSE [kind |-> DeltaKind(phase, mode, content), text |-> content,
             phase |-> phase, canon |-> extracted]

\* lines 2072-2145: a record with a text
FormatText(phase0, content0, prev, mode) ==
    LET phase == ToolPhase(phase0, prev, content0)
        content1 == ToolText(phase0, prev, content0)
        extracts == Extracts(phase, content1)
        canonical == IF extracts THEN Canonical(phase, content1) ELSE content1
        extracted == IF extracts THEN Extracted(phase, prev, content1) ELSE content1
        content == IF extracts THEN Render(mode, phase, extracted, canonical) ELSE content1
    IN IF extracts /\ RenderRaises(mode, phase, canonical) THEN Raised(prev)
       ELSE [kind |-> DeltaKind(phase, mode, content), text |-> content,
             phase |-> phase, canon |-> extracted]

\* response.format(data), lines 2063-2156
Format(rec, prev, mode) ==
    IF rec.shape \in {"scalar", "baddata"} THEN Raised(prev)
    ELSE IF rec.shape = "nodata" THEN Nothing(prev)
    ELSE LET phase == ChunkPhase(rec)
             content == ChunkContent(rec)
         IN IF ~Truthy(content) THEN Nothing(prev)
            ELSE IF content.kind = "number"
               THEN IF NumberRaises(phase, prev) THEN Raised(prev)
                    ELSE [kind |-> DeltaKind(phase, mode, content.text),
                          text |-> content.text, phase |-> phase, canon |-> content.text]
            ELSE FormatText(phase, content.text, prev, mode)

(* ------------------------------------------------------------------ *)
(* History of the calls (not program state). A history is kept only     *)
(* when its name is in watch, which is fixed at the start.              *)
(* ------------------------------------------------------------------ *)

Never == 0 - 1
NoStreak == [c \in Creds |-> 0]
NoHit == [c \in Creds |-> Never]
NoHits == [kept |-> NoHit, orig |-> NoHit]
\* the last call was neither update() nor the constructor
OtherCall == [op |-> "other", list |-> <<>>, same |-> FALSE, moved |-> FALSE]
NoRun == [avail |-> <<>>, rets |-> <<>>]
ScenIdle == [stage |-> 0, rets |-> <<>>, at |-> 0]

\* the pool of the scenario: A then B, threshold 1, a fresh cursor, nothing cooling
ScenStart ==
    /\ tokens = <<"A", "B">>
    /\ failure_threshold = 1
    /\ index = 0
    /\ AvailableTokens(tokens, disabled, now) = tokens

\* get() returned r
HistGet(r) ==
    LET a0 == AvailableTokens(tokens, disabled, now)
        cooling == now - scen.at < TOKEN_POOL_RESET_FAILURES
    IN /\ streak' = streak
       /\ hitAt' = IF "cooldown" \in watch /\ a0 = <<>>
                   THEN [hitAt EXCEPT !.kept = NoHit] ELSE hitAt
       /\ last' = IF "back" \in watch /\ r \in Creds
                      /\ DictGet(failures, r, 0) >= failure_threshold
                     THEN [op |-> "back", list |-> <<r>>, same |-> FALSE, moved |-> FALSE]
                  ELSE OtherCall
       /\ run' = IF "run" \notin watch \/ a0 = <<>> THEN NoRun
                 ELSE IF run.avail = a0 /\ Len(run.rets) < MaxRun
                      THEN [run EXCEPT !.rets = Append(@, r)]
                      ELSE [avail |-> a0, rets |-> <<r>>]
       /\ scen' = IF "scen" \notin watch THEN ScenIdle
                  ELSE IF scen.stage \in {2, 3} /\ cooling
                     THEN [scen EXCEPT !.stage = @ + 1, !.rets = Append(@, r)]
                  ELSE IF scen.stage = 4 /\ ~cooling
                     THEN [scen EXCEPT !.stage = 5, !.rets = Append(@, r)]
                  ELSE IF ScenStart
                     THEN [stage |-> 1, rets |-> <<r>>, at |-> 0]
                  ELSE ScenIdle

\* mark_success(t) was applied to a credential of the pool
HistMarkSuccess(t) ==
    /\ streak' = IF "cooldown" \in watch THEN [streak EXCEPT ![t] = 0] ELSE streak
    /\ hitAt' = IF "cooldown" \in watch
                THEN [hitAt EXCEPT !.kept[t] = Never, !.orig[t] = Never] ELSE hitAt
    /\ run' = NoRun
    /\ scen' = ScenIdle
    /\ last' = OtherCall

\* mark_failure(t) was applied to a credential of the pool
HistMarkFailure(t) ==
    LET n == streak[t] + 1
        hit == IF n = failure_threshold THEN now ELSE Never
    IN /\ streak' = IF "cooldown" \in watch THEN [streak EXCEPT ![t] = n] ELSE streak
       /\ hitAt' = IF "cooldown" \in watch
                   THEN [hitAt EXCEPT !.kept[t] = hit, !.orig[t] = hit] ELSE hitAt
       /\ last' = IF "back" \in watch /\ last.op = "back" /\ last.list = <<t>>
                     THEN [op |-> "again", list |-> <<t>>, same |-> FALSE, moved |-> FALSE]
                  ELSE OtherCall
       /\ run' = NoRun
       /\ scen' = IF "scen" \in watch /\ scen.stage = 1 /\ t = "A"
                  THEN [scen EXCEPT !.stage = 2, !.at = now]
                  ELSE ScenIdle

\* a mark call that returned at its first test
HistNoOp ==
    /\ UNCHANGED <<streak, hitAt>>
    /\ run' = NoRun
    /\ scen' = ScenIdle
    /\ last' = OtherCall

\* update(list): the credentials that leave the pool start afresh
HistUpdate(list) ==
    LET kept == Range(Unique(list)) \cap Range(tokens)
    IN /\ streak' = [c \in Creds |-> IF c \in kept THEN streak[c] ELSE 0]
       /\ hitAt' = [hitAt EXCEPT
                       !.kept = [c \in Creds |-> IF c \in kept THEN @[c] ELSE Never]]
       /\ run' = NoRun
       /\ scen' = ScenIdle
       /\ last' = IF "ops" \in watch
                     THEN [op |-> "update", list |-> list, same |-> FALSE, moved |-> FALSE]
                  ELSE IF "same" \in watch
                     THEN [op |-> "update", list |-> <<>>,
                           same |-> Range(Unique(list)) = Range(tokens),
                           moved |-> Unique(list) # tokens]
                  ELSE OtherCall

HistTick ==
    /\ UNCHANGED <<streak, hitAt, run>>
    /\ last' = OtherCall
    /\ scen' = IF scen.stage \in 1..4 THEN scen ELSE ScenIdle

(* ------------------------------------------------------------------ *)
(* One caller at a time: every call runs from start to end             *)
(* ------------------------------------------------------------------ *)

Workers == {"w1", "w2"}
Idle == [kind |-> "idle", tok |-> None]

\* the value of snap after a call that is not snapshot()
NoSnap == [size |-> Never, next_index |-> Never, tokens |-> <<>>]

\* RequestMetrics.__init__ (lines 306-313); a deque is a sequence, newest first
NewMetrics ==
    [total_requests |-> 0, success_requests |-> 0, failure_requests |-> 0,
     total_response_time |-> 0, recent_requests |-> <<>>, token_stats |-> EmptyDict]
\* no call of the RequestMetrics instance has returned yet
NoReturn == [op |-> "none"]

\* token_info: None, or a dict with its "source" and its "token" ("" for a
\* token that is None or empty)
NoTokenInfo == [given |-> FALSE, source |-> "none", token |-> ""]
TokenInfo(source, token) == [given |-> TRUE, source |-> source, token |-> token]
\* status_code is None
NoStatus == 0 - 1
\* no entry was recorded
NoEntry == [nth |-> 0]
\* the counters before the outcome was reported (history)
NoCounts ==
    [success_requests |-> 0, failure_requests |-> 0, failures |-> 0, successes |-> 0,
     contained |-> FALSE]
\* no request is being handled
NoUpstreamCall ==
    [pc |-> "idle", token_info |-> NoTokenInfo, status |-> NoStatus, finalized |-> FALSE,
     n |-> 0, path |-> "none", metric |-> NoEntry, mark |-> "none", was |-> NoCounts,
     finals |-> 0]

\* the threads that call _update_token_pool
Updaters == {"u1", "u2"}
\* TOKEN_HASH_SECRET
Salt == "salt"
\* the state file after json.dump of the list toks, lines 90-91
Document(toks) == [state |-> "written", tokens |-> toks, salt |-> Salt]
\* the state file after open(..., "w") and before json.dump: it is empty
Truncated == [state |-> "truncated", tokens |-> <<>>, salt |-> ""]
\* a thread that is not in _update_token_pool
NoUpdater == [pc |-> "idle", list |-> <<>>, copy |-> <<>>, n |-> 0, failed |-> FALSE]

\* the request threads of app.run(threaded=True)
Threads == {"t1", "t2"}
\* the two locks (lines 128, 307)
Locks == {"pool", "metrics"}
\* no thread holds the lock
Free == "-"
\* a thread that handles no request
NoThread == [script |-> <<>>, at |-> 0, in |-> "out"]

\* response.parse was not called yet
NoParser == [pc |-> "idle", line |-> <<>>, n |-> 0, out |-> <<>>, want |-> <<>>]

\* no stream was opened yet and no record was formatted (history)
NoBoundary ==
    [n |-> 0, left |-> "none", last |-> "none", events |-> 0, first |-> FALSE,
     closed |-> FALSE, other |-> FALSE]

\* the two requests, and a request that has read no record yet
Sessions == {"s1", "s2"}
NotRead == "-"
NoEvent == [by |-> "start", rec |-> NoChunk]
NoSession ==
    [pc |-> "idle", chunk |-> NoChunk, seen |-> NotRead, seen2 |-> NotRead,
     src |-> NoEvent, delta |-> NoDelta, canon |-> NoText, local |-> <<>>]

\* the state outside the pool at process start: nothing was returned by
\* snapshot(), phaseBak is "thinking" (line 1296), no stream is being read
OutsideStart(modes) ==
    /\ snap = NoSnap
    /\ phaseBak = "thinking"
    /\ think \in modes
    /\ pc = "idle"
    /\ chunk = NoChunk
    /\ delta = NoDelta
    /\ canon = NoText
    /\ phaseWas = "thinking"
    /\ scene = <<>>
    /\ boundary = NoBoundary
    /\ sess = [s \in Sessions |-> NoSession]
    /\ memory = NoEvent
    /\ parser = NoParser
    /\ request_metrics = NewMetrics
    /\ metrics_ret = NoReturn
    /\ call = NoUpstreamCall
    /\ disk = Document(tokens)
    /\ persist = [u \in Updaters |-> NoUpdater]
    /\ locks = [l \in Locks |-> Free]
    /\ threads = [t \in Threads |-> NoThread]

\* a call of the pool leaves the normalizer alone
Elsewhere ==
    /\ snap' = NoSnap
    /\ UNCHANGED fmtVars
    /\ UNCHANGED sideVars

\* TokenPool.__init__: empty fields, max(1, failure_threshold), update(tokens)
PoolStart(list, th, w) ==
    /\ tokens = Unique(list)
    /\ index = 0
    /\ failure_threshold = Max(1, th)
    /\ failures = UpdateFailures(EmptyDict, Unique(list))
    /\ disabled = EmptyDict
    /\ successes = UpdateSuccesses(EmptyDict, EmptyDict, Unique(list))
    /\ token_ids = UpdateTokenIds(Unique(list))
    /\ now = 0
    /\ pending = [k \in Workers |-> Idle]
    /\ ret = NoCall
    /\ streak = NoStreak
    /\ hitAt = NoHits
    /\ last = IF "ops" \in w
              THEN [op |-> "init", list |-> list, same |-> FALSE, moved |-> FALSE]
              ELSE OtherCall
    /\ run = NoRun
    /\ scen = ScenIdle
    /\ watch = w

\* the process after start-up, with the default rendering mode (line 37)
InitPool(w, thresholds) ==
    /\ \E list \in InitLists, th \in thresholds : PoolStart(list, th, w)
    /\ OutsideStart({"reasoning"})

Init == InitPool({}, 0..MaxThreshold)

Get ==
    /\ GetStep
    /\ HistGet(GetToken(GetAvailable(tokens, disabled, now), index))
    /\ UNCHANGED <<now, pending, watch>>
    /\ Elsewhere

MarkSuccess(t) ==
    /\ IF MarkAccepted(t, tokens)
          THEN CanSucceed(t) /\ MarkSuccessBody(t) /\ HistMarkSuccess(t)
          ELSE UNCHANGED poolVars /\ HistNoOp
    /\ ret' = NoCall
    /\ UNCHANGED <<now, pending, watch>>
    /\ Elsewhere

MarkFailure(t) ==
    /\ IF MarkAccepted(t, tokens)
          THEN CanFail(t) /\ MarkFailureBody(t) /\ HistMarkFailure(t)
          ELSE UNCHANGED poolVars /\ HistNoOp
    /\ ret' = NoCall
    /\ UNCHANGED <<now, pending, watch>>
    /\ Elsewhere

Update(list) ==
    /\ UpdateStep(list)
    /\ HistUpdate(list)
    /\ UNCHANGED <<now, pending, watch>>
    /\ Elsewhere

\* time passes between two calls
Tick ==
    /\ now < MaxClock
    /\ now' = now + 1
    /\ ret' = NoCall
    /\ HistTick
    /\ UNCHANGED <<poolVars, pending, watch>>
    /\ Elsewhere

\* snapshot(): the whole call, under the lock
Snapshot ==
    /\ SnapshotPool
    /\ snap' = SnapshotReport(tokens, index, failures, successes, disabled, now)
    /\ ret' = NoCall
    /\ HistNoOp
    /\ UNCHANGED <<now, pending, watch, fmtVars>>
    /\ UNCHANGED sideVars

Next ==
    \/ Get
    \/ \E t \in MarkArgs : MarkSuccess(t)
    \/ \E t \in MarkArgs : MarkFailure(t)
    \/ \E list \in Lists : Update(list)
    \/ Tick

\* the pool with one caller
Spec == Init /\ [][Next]_vars

(* ------------------------------------------------------------------ *)
(* Several callers: a mark call tests `token in self._tokens` before it *)
(* takes the lock, so another call can run between test and body       *)
(* ------------------------------------------------------------------ *)

\* mark_success / mark_failure, lines 161-162 and 169-170: the test, without the lock
ConcMarkTest(w, kind, t) ==
    /\ pending[w] = Idle
    /\ pending' = IF MarkAccepted(t, tokens)
                  THEN [pending EXCEPT ![w] = [kind |-> kind, tok |-> t]]
                  ELSE pending
    /\ ret' = NoCall
    /\ UNCHANGED <<poolVars, now, histVars, watch>>
    /\ Elsewhere

\* mark_success / mark_failure, lines 163-166 and 171-176: the body, under the lock
ConcMarkApply(w) ==
    /\ pending[w] # Idle
    /\ IF pending[w].kind = "success"
          THEN CanSucceed(pending[w].tok) /\ MarkSuccessBody(pending[w].tok)
          ELSE CanFail(pending[w].tok) /\ MarkFailureBody(pending[w].tok)
    /\ pending' = [pending EXCEPT ![w] = Idle]
    /\ ret' = NoCall
    /\ UNCHANGED <<now, histVars, watch>>
    /\ Elsewhere

\* get(), under the lock
ConcGet ==
    /\ GetStep
    /\ UNCHANGED <<now, pending, histVars, watch>>
    /\ Elsewhere

\* update(list), under the lock
ConcUpdate(list) ==
    /\ UpdateStep(list)
    /\ UNCHANGED <<now, pending, histVars, watch>>
    /\ Elsewhere

ConcNext ==
    \/ ConcGet
    \/ \E w \in Workers, kind \in {"success", "failure"}, t \in MarkArgs :
          ConcMarkTest(w, kind, t)
    \/ \E w \in Workers : ConcMarkApply(w)
    \/ \E list \in Lists : ConcUpdate(list)

\* the pool with two callers whose calls interleave
SpecConc == Init /\ [][ConcNext]_vars

\* the pool with one caller that also asks for snapshots
SnapNext == Next \/ Snapshot
SpecSnap == Init /\ [][SnapNext]_vars

\* the same, keeping the history of failure streaks
SpecCooldown == InitPool({"cooldown"}, 0..MaxThreshold) /\ [][Next]_vars

\* the same, keeping the history of runs of get() calls
SpecRun == InitPool({"run"}, {2}) /\ [][Next]_vars

\* the same, keeping the input of the last update() call
SpecOps == InitPool({"ops"}, {2}) /\ [][Next]_vars

\* the same, keeping whether the last update() call had the credentials of the list
SpecSame == InitPool({"same"}, {2}) /\ [][Next]_vars

\* the same, keeping whether get() has just returned a credential whose
\* failures had reached the threshold, and whether it then failed again
SpecBack == InitPool({"back"}, 0..MaxThreshold) /\ [][Next]_vars

\* the same, keeping the progress through the scenario
SpecScen == InitPool({"scen"}, 0..MaxThreshold) /\ [][Next]_vars

(* ------------------------------------------------------------------ *)
(* The records of a stream and the loop that formats them               *)
(* (generate_stream, lines 2276-2347)                                   *)
(* ------------------------------------------------------------------ *)

CorePieces == {"w", Nl, DetailsOpen, DetailsClose, SummaryOpen, SummaryClose, Quote}
RarePieces == {" ", Duration, BadEscape, "<Full>", GlmOpen, GlmResult, GlmDisplay, GlmClose}

\* k newlines
Newlines(k) == [i \in 1..k |-> Nl]

\* the texts of the scenario: Hello and </details>World
Hello == <<"w">>
World == <<"w", "w">>
ScenarioTexts == {Hello, <<DetailsClose>> \o World}

\* a close tag, text, and summary>
Closing == <<DetailsClose, "w", SummaryClose>>

\* a close tag, newlines, and text that holds summary>
SpliceTexts == {<<DetailsClose>> \o Newlines(k) \o <<"w", SummaryClose>> : k \in 0..MaxNl}

ShortTexts == UNION {[1..n -> CorePieces \cup RarePieces] : n \in 0..MaxRare}
Texts ==
    UNION {[1..n -> CorePieces] : n \in 0..MaxText}
        \cup ShortTexts \cup ScenarioTexts \cup SpliceTexts

\* a decoded record whose "data" is a keyed record
Keyed(phase, dc, ec) ==
    [shape |-> "keyed", phase |-> phase, delta_content |-> dc, edit_content |-> ec]

\* the decoded records: a value that is not a keyed record, a record without
\* "data", a "data" that is not a keyed record, and keyed records with their
\* phase (or none) and their text in delta_content or in edit_content
Records ==
    {[shape |-> sh, phase |-> "absent", delta_content |-> Absent, edit_content |-> Absent] :
        sh \in {"scalar", "nodata", "baddata"}}
    \cup {Keyed(ph, Text(t), Absent) : ph \in KnownPhases, t \in Texts}
    \cup {Keyed(ph, Text(t), Absent) : ph \in {"absent", "done"}, t \in ShortTexts}
    \cup {Keyed(ph, dc, Text(t)) :
            ph \in KnownPhases, dc \in {Absent, Text(<<>>)}, t \in ShortTexts}
    \cup {Keyed(ph, Number, Absent) : ph \in Phases}
    \cup {Keyed(ph, Absent, Absent) : ph \in Phases}
    \cup {Keyed(ph, Text(<<"w">>), Text(<<Nl>>)) : ph \in KnownPhases}

poolSide == <<tokens, index, failure_threshold, failures, disabled, successes, token_ids,
              now, pending, ret, streak, hitAt, run, scen, last, watch, snap>>

\* the scenario so far, after a record was formatted: its first record in mode
\* reasoning starts it, its second record right after continues it
SceneAfter(rec, d) ==
    IF think = "reasoning" /\ rec = Keyed("thinking", Text(Hello), Absent)
       THEN <<d>>
    ELSE IF Len(scene) = 1 /\ rec = Keyed("answer", Text(<<DetailsClose>> \o World), Absent)
       THEN Append(scene, d)
    ELSE <<>>

\* an answer record that enters the extraction and whose close marker is
\* followed by text: the record that line 2096 splices and line 2099 empties
ClosesWithText(rec) ==
    LET text == ChunkContent(rec).text
    IN /\ rec.shape = "keyed"
       /\ ChunkPhase(rec) = "answer"
       /\ ChunkContent(rec).kind = "text"
       /\ Extracts("answer", text)
       /\ Matched(Canonical("answer", text))
       /\ NotBlank(After(Canonical("answer", text)))

\* the history when a stream is opened: one stream more, and the phase that
\* the last record with a text of the streams before it has left
BoundaryOpened ==
    IF "boundary" \notin watch THEN boundary
    ELSE [n |-> IF boundary.n = 0 THEN 1 ELSE 2, left |-> boundary.last,
          last |-> boundary.last, events |-> 0, first |-> FALSE, closed |-> FALSE,
          other |-> FALSE]

\* the history after response.format was called with rec and returned a
\* delta of the given kind: the phase a record with a text leaves is its own,
\* or tool_call when it goes on with a tool call
BoundaryAfter(rec, kind) ==
    IF "boundary" \notin watch THEN boundary
    ELSE LET wrote == rec.shape = "keyed" /\ ChunkContent(rec).kind = "text"
                          /\ kind \notin {"none", "raise"}
             leaves == ToolPhase(ChunkPhase(rec), boundary.last, ChunkContent(rec).text)
         IN [n |-> boundary.n, left |-> boundary.left,
             last |-> IF wrote THEN leaves ELSE boundary.last,
             events |-> 1,
             first |-> boundary.events = 0,
             closed |-> boundary.closed \/ ClosesWithText(rec),
             other |-> boundary.other \/ (wrote /\ leaves # "answer")]

\* a request starts to read its upstream stream
StreamOpen ==
    /\ pc = "idle"
    /\ pc' = "reading"
    /\ boundary' = BoundaryOpened
    /\ UNCHANGED <<phaseBak, think, chunk, delta, canon, phaseWas, scene, poolSide, sideVars>>

\* response.parse yields the next record (line 2281)
StreamRecord(rec) ==
    /\ pc = "reading"
    /\ chunk' = rec
    /\ pc' = "parsed"
    /\ UNCHANGED <<phaseBak, think, delta, canon, phaseWas, scene, boundary, poolSide,
                    sideVars>>

\* response.format is called with it (line 2282); an exception leaves the loop
StreamFormat ==
    /\ pc = "parsed"
    /\ LET r == Format(chunk, phaseBak, think)
           d == [kind |-> r.kind, text |-> r.text]
       IN /\ delta' = d
          /\ phaseBak' = r.phase
          /\ canon' = r.canon
          /\ scene' = SceneAfter(chunk, d)
          /\ boundary' = BoundaryAfter(chunk, r.kind)
          /\ pc' = IF r.kind = "raise" THEN "aborted" ELSE "formatted"
    /\ phaseWas' = phaseBak
    /\ UNCHANGED <<think, chunk, poolSide, sideVars>>

\* the delta is skipped or sent on (lines 2283-2305) and the loop goes on
StreamYield ==
    /\ pc = "formatted"
    /\ pc' = "reading"
    /\ chunk' = NoChunk
    /\ delta' = NoDelta
    /\ canon' = NoText
    /\ phaseWas' = phaseBak
    /\ UNCHANGED <<phaseBak, think, scene, boundary, poolSide, sideVars>>

\* faulty variant of StreamEnd: the phase memory starts afresh for the next
\* stream
StreamEndResetting ==
    /\ pc = "reading"
    /\ pc' = "idle"
    /\ scene' = <<>>
    /\ phaseBak' = "thinking"
    /\ UNCHANGED <<think, chunk, delta, canon, phaseWas, boundary, poolSide, sideVars>>

\* the stream has no more records (lines 2307-2337)
StreamEnd ==
    /\ pc = "reading"
    /\ pc' = "idle"
    /\ scene' = <<>>
    /\ UNCHANGED <<phaseBak, think, chunk, delta, canon, phaseWas, boundary, poolSide,
                    sideVars>>

\* the exception is raised again and ends the response (lines 2341-2345)
StreamAbort ==
    /\ pc = "aborted"
    /\ pc' = "idle"
    /\ chunk' = NoChunk
    /\ delta' = NoDelta
    /\ canon' = NoText
    /\ phaseWas' = phaseBak
    /\ scene' = <<>>
    /\ UNCHANGED <<phaseBak, think, boundary, poolSide, sideVars>>

FormatNext ==
    \/ StreamOpen
    \/ \E rec \in Records : StreamRecord(rec)
    \/ StreamFormat
    \/ StreamYield
    \/ StreamEnd
    \/ StreamAbort

\* the records of the streams that follow one another
BoundaryTexts ==
    {Hello, Closing, <<DetailsClose, "w">>, <<"w", SummaryClose>>, <<GlmOpen>>,
     <<SummaryOpen, BadEscape, SummaryClose, DetailsClose, "w">>}
BoundaryRecords ==
    {Keyed(ph, Text(t), Absent) : ph \in KnownPhases, t \in BoundaryTexts}
        \cup {Keyed("answer", Absent, Absent), Keyed("answer", Number, Absent)}

BoundaryNext ==
    \/ StreamOpen
    \/ \E rec \in BoundaryRecords : StreamRecord(rec)
    \/ StreamFormat
    \/ StreamYield
    \/ StreamEnd
    \/ StreamAbort

\* the process with an empty pool, started with one of the rendering modes
FormatInit(modes) ==
    /\ PoolStart(<<>>, 1, {})
    /\ OutsideStart(modes)

\* the streams of one request after the other, in any rendering mode
SpecFormat == FormatInit(Modes) /\ [][FormatNext]_vars

\* one stream after the other, keeping the history of the streams
SpecBoundary ==
    /\ PoolStart(<<>>, 1, {"boundary"}) /\ OutsideStart(Modes)
    /\ [][BoundaryNext]_vars

\* the same, in rendering mode strip
SpecStrip == FormatInit({"strip"}) /\ [][FormatNext]_vars

(* ------------------------------------------------------------------ *)
(* Two streams read at the same time (app.run(threaded=True), line      *)
(* 2743): each request runs the loop of generate_stream in its own      *)
(* thread, and response.format reads and writes the one module-level    *)
(* phaseBak without a lock, so the calls of two threads interleave      *)
(* between a read of phaseBak and the write of line 2140                *)
(* ------------------------------------------------------------------ *)

\* the records of the two streams: a thinking record, an answer record whose
\* text closes the thinking block and goes on, and an answer record without
\* markers
SharedRecords ==
    {Keyed("thinking", Text(Hello), Absent),
     Keyed("answer", Text(Closing), Absent),
     Keyed("answer", Text(World), Absent)}

\* everything but the two streams and the phase memory
sessSide == <<poolSide, think, pc, chunk, delta, canon, phaseWas, scene, boundary,
              parseVars, metricVars, callVars, persistVars, lockVars>>

\* faulty variant of ReadPhaseBak: each stream has a phase memory of its own
ReadPhaseBakOwn(s) ==
    IF sess[s].local = <<>> THEN "thinking"
    ELSE ChunkPhase(sess[s].local[Len(sess[s].local)])

\* lines 1296, 2070: phaseBak is a global of the module, read by every thread
ReadPhaseBak(s) == phaseBak

\* line 2099 reads phaseBak a second time: for an answer record whose close
\* marker is followed by text, when line 2096 did not read "thinking"
ReadsAgain(rec, seen) ==
    LET phase == ChunkPhase(rec)
        content == ChunkContent(rec).text
    IN /\ rec.shape = "keyed"
       /\ ChunkContent(rec).kind = "text"
       /\ phase = "answer"
       /\ Extracts(phase, content)
       /\ Matched(Canonical(phase, content))
       /\ NotBlank(After(Canonical(phase, content)))
       /\ seen # "thinking"

\* the one previous phase that gives what the two reads give: the first read
\* when there was one read; after two reads "answer" when the second read it,
\* and else a phase that is neither "thinking" nor "answer"
EffectivePrev(seen, seen2) ==
    IF seen2 = NotRead THEN seen
    ELSE IF seen2 = "answer" THEN "answer"
    ELSE "other"

\* the loop of request s sends its delta on, if any, and response.parse
\* yields the next record of its stream (lines 2281, 2283-2305)
SessRecord(s, rec) ==
    /\ sess[s].pc \in {"idle", "formatted"}
    /\ Len(sess[s].local) < MaxEvents
    /\ sess' = [sess EXCEPT ![s].pc = "parsed", ![s].chunk = rec,
                            ![s].seen = NotRead, ![s].seen2 = NotRead,
                            ![s].src = NoEvent,
                            ![s].delta = NoDelta, ![s].canon = NoText]
    /\ UNCHANGED <<phaseBak, memory, sessSide>>

\* response.format of request s reads phaseBak (lines 2075, 2096)
SessRead(s) ==
    /\ sess[s].pc = "parsed"
    /\ sess' = [sess EXCEPT ![s].seen = ReadPhaseBak(s),
                            ![s].src = memory,
                            ![s].pc = IF ReadsAgain(sess[s].chunk, ReadPhaseBak(s))
                                      THEN "again" ELSE "read"]
    /\ UNCHANGED <<phaseBak, memory, sessSide>>

\* it reads phaseBak once more (line 2099)
SessReadAgain(s) ==
    /\ sess[s].pc = "again"
    /\ sess' = [sess EXCEPT ![s].seen2 = ReadPhaseBak(s), ![s].pc = "read"]
    /\ UNCHANGED <<phaseBak, memory, sessSide>>

\* it writes phaseBak (line 2140) and returns (lines 2147-2156), or it
\* returns or raises before line 2140
SessWrite(s) ==
    /\ sess[s].pc = "read"
    /\ LET r == Format(sess[s].chunk, EffectivePrev(sess[s].seen, sess[s].seen2), think)
           writes == r.kind \notin {"none", "raise"}
       IN /\ sess' = [sess EXCEPT ![s].pc = IF r.kind = "raise" THEN "aborted"
                                             ELSE "formatted",
                                  ![s].delta = [kind |-> r.kind, text |-> r.text],
                                  ![s].canon = r.canon,
                                  ![s].local = Append(@, sess[s].chunk)]
          /\ phaseBak' = IF writes THEN r.phase ELSE phaseBak
          /\ memory' = IF writes THEN [by |-> s, rec |-> sess[s].chunk] ELSE memory
    /\ UNCHANGED sessSide

SharedNext ==
    \/ \E s \in Sessions, rec \in SharedRecords : SessRecord(s, rec)
    \/ \E s \in Sessions : SessRead(s)
    \/ \E s \in Sessions : SessReadAgain(s)
    \/ \E s \in Sessions : SessWrite(s)

\* two requests at a time, in any rendering mode
SpecShared == FormatInit(Modes) /\ [][SharedNext]_vars

(* ------------------------------------------------------------------ *)
(* response.parse (lines 2055-2060): the lines of the upstream stream   *)
(* and the records decoded from them. A line is a sequence of pieces:   *)
(* a prefix, and the pieces of a JSON text                              *)
(* ------------------------------------------------------------------ *)

\* b"data: ", the prefix of a data frame
DataPrefix == "data: "
\* what else a line may start with
OtherPrefixes == {"data:", "event: "}
\* a byte that is not valid UTF-8
BadByte == "\\xff"
\* the pieces after the prefix: braces, a digit, the member "data": {...}
JsonPieces == {"{", "}", "5", "d"}
Bodies == UNION {[1..n -> JsonPieces \cup {BadByte}] : n \in 0..MaxBody}
            \cup {<<"{", "d", "}">>, <<"{", BadByte, "d", "}">>}
\* the lines iter_lines() may give: the empty line, lines with a prefix, lines
\* without one
StreamLines ==
    {<<p>> \o b : p \in {DataPrefix} \cup OtherPrefixes, b \in Bodies} \cup Bodies

\* bytes.decode("utf-8", "ignore"): the invalid bytes are dropped
RECURSIVE Utf8Ignore(_)
Utf8Ignore(b) ==
    IF b = <<>> THEN <<>>
    ELSE IF Head(b) = BadByte THEN Utf8Ignore(Tail(b))
    ELSE <<Head(b)>> \o Utf8Ignore(Tail(b))

\* the text is made of digits only
RECURSIVE Digits(_)
Digits(t) == t = <<>> \/ (Head(t) = "5" /\ Digits(Tail(t)))

\* json.loads(text): a number, an object without members, an object with the
\* member "data", or ValueError
JsonLoads(t) ==
    IF t # <<>> /\ Digits(t) THEN [ok |-> TRUE, shape |-> "scalar", digits |-> Len(t)]
    ELSE IF t = <<"{", "}">> THEN [ok |-> TRUE, shape |-> "nodata", digits |-> 0]
    ELSE IF t = <<"{", "d", "}">> THEN [ok |-> TRUE, shape |-> "keyed", digits |-> 0]
    ELSE [ok |-> FALSE, shape |-> "ValueError", digits |-> 0]

\* line.startswith(b"data: ")
StartsWith(line) == line # <<>> /\ Head(line) = DataPrefix

\* faulty variant of ParseOne: there is no except clause around json.loads
ParseOneRaising(line) ==
    IF line = <<>> \/ ~StartsWith(line) THEN [act |-> "skip"]
    ELSE LET data == JsonLoads(Utf8Ignore(Tail(line)))
         IN IF data.ok THEN [act |-> "yield", data |-> data] ELSE [act |-> "raise"]

\* lines 2057-2060, one turn of the loop: the line is skipped, or its record
\* is yielded
ParseOne(line) ==
    IF line = <<>> \/ ~StartsWith(line) THEN [act |-> "skip"]
    ELSE LET data == JsonLoads(Utf8Ignore(Tail(line)))
         IN IF data.ok THEN [act |-> "yield", data |-> data] ELSE [act |-> "skip"]

\* what the lines call for: a line that is not blank, starts with the prefix
\* and whose rest decodes calls for its decoded record
WellFormed(t) ==
    \/ t \in {<<"{", "}">>, <<"{", "d", "}">>}
    \/ t # <<>> /\ \A i \in 1..Len(t) : t[i] = "5"
CallsForRecord(line) ==
    /\ Len(line) >= 1
    /\ line[1] = DataPrefix
    /\ WellFormed(Utf8Ignore(SubSeq(line, 2, Len(line))))
WantAfter(want, line) ==
    IF CallsForRecord(line)
       THEN Append(want, JsonLoads(Utf8Ignore(SubSeq(line, 2, Len(line)))))
       ELSE want

\* everything but the parser
parseSide == <<poolSide, fmtVars, sessVars, metricVars, callVars, persistVars, lockVars>>

\* response.parse(stream) is called with a new stream (line 2281)
ParseOpen ==
    /\ parser.pc \in {"idle", "ended", "broken", "raised"}
    /\ parser' = [NoParser EXCEPT !.pc = "waiting"]
    /\ UNCHANGED parseSide

\* iter_lines() gives the next line (line 2056)
ParseLine(line) ==
    /\ parser.pc = "waiting"
    /\ parser.n < MaxLines
    /\ parser' = [parser EXCEPT !.pc = "line", !.line = line, !.n = @ + 1]
    /\ UNCHANGED parseSide

\* the body of the loop for that line (lines 2057-2060)
ParseBody ==
    /\ parser.pc = "line"
    /\ LET r == ParseOne(parser.line)
       IN parser' = [parser EXCEPT
                        !.pc = IF r.act = "raise" THEN "raised" ELSE "waiting",
                        !.line = <<>>,
                        !.out = IF r.act = "yield" THEN Append(@, r.data) ELSE @,
                        !.want = WantAfter(@, parser.line)]
    /\ UNCHANGED parseSide

\* the stream has no more lines: the generator returns
ParseEnd ==
    /\ parser.pc = "waiting"
    /\ parser' = [parser EXCEPT !.pc = "ended"]
    /\ UNCHANGED parseSide

\* the connection breaks: iter_lines() raises, and so does the generator
ParseBreak ==
    /\ parser.pc = "waiting"
    /\ parser' = [parser EXCEPT !.pc = "broken"]
    /\ UNCHANGED parseSide

ParseNext ==
    \/ ParseOpen
    \/ \E line \in StreamLines : ParseLine(line)
    \/ ParseBody
    \/ ParseEnd
    \/ ParseBreak

\* the parser, one stream after the other
SpecParse == FormatInit({"reasoning"}) /\ [][ParseNext]_vars

(* ------------------------------------------------------------------ *)
(* RequestMetrics (lines 305-388)                                       *)
(* ------------------------------------------------------------------ *)

\* deque(maxlen=100), line 312
RecentMax == 100

\* the status codes record() is called with
Statuses == {NoStatus, 199, 200, 399, 400, 599}

\* the values of token_info that record() is called with
TokenInfos ==
    {NoTokenInfo, TokenInfo("pool", "A"), TokenInfo("anonymous", "A"),
     TokenInfo("custom", "A")}

\* error is None
NoError == ""
\* the arguments of record(); the duration is in whole seconds
RecordArgs ==
    [method : {"POST"}, path : {"/chat"}, status_code : Statuses, duration : {0, 1},
     client_ip : {"ip"}, token_info : TokenInfos, error : {NoError, "timeout"}]
\* the arguments of the calls that fill the window
WindowArgs ==
    [method |-> "POST", path |-> "/chat", status_code |-> 200, duration |-> 1,
     client_ip |-> "ip", token_info |-> TokenInfo("pool", "A"), error |-> NoError]

\* the arguments of the calls around the moment the window gets full
MixedArgs ==
    {[WindowArgs EXCEPT !.status_code = st, !.token_info = info] :
        st \in {200, 400}, info \in {TokenInfo("pool", "A"), NoTokenInfo}}

\* faulty variant of IsSuccess: a status of 400 and above counts as success too
IsSuccessAny(status_code) == status_code # NoStatus /\ 200 <= status_code

\* line 316
IsSuccess(status_code) ==
    status_code # NoStatus /\ 200 <= status_code /\ status_code < 400

\* lines 317-323
TokenSource(info) == IF info.given THEN info.source ELSE "none"
TokenValue(info) == IF info.given THEN info.token ELSE ""

\* lines 324-331: the identity ("" for None) and the display form
TokenId(info) ==
    IF TokenSource(info) = "anonymous" \/ TokenValue(info) = "" THEN ""
    ELSE IF TokenSource(info) \in {"pool", "static"} THEN TokenIdentifier(TokenValue(info))
    ELSE ""
AnonymousDisplay == "anonymous token"
TokenDisplay(info) ==
    IF TokenSource(info) = "anonymous" \/ TokenValue(info) = "" THEN AnonymousDisplay
    ELSE IF TokenSource(info) \in {"pool", "static"} THEN TokenDisplayFromId(TokenId(info))
    ELSE TokenValue(info)

\* line 333
StatsKey(info) ==
    IF TokenId(info) # "" THEN TokenId(info) ELSE "__" \o TokenSource(info) \o "__"

\* line 313: the value of a key that is looked up for the first time; the
\* key "display" is not there yet
NoDisplay == ""
DefaultStats == [success |-> 0, failure |-> 0, source |-> "unknown", display |-> NoDisplay]

\* faulty variant of RecordStats: a failure is counted under the key "__none__"
\* only when the call had no credential, and under no key otherwise
RecordStatsFailureLost(stats, args) ==
    LET old == DictGet(stats, StatsKey(args.token_info), DefaultStats)
        ok == IsSuccess(args.status_code)
    IN DictPut(stats, StatsKey(args.token_info),
               [success |-> IF ok THEN old.success + 1 ELSE old.success,
                failure |-> IF ok \/ args.token_info.given THEN old.failure
                            ELSE old.failure + 1,
                source |-> TokenSource(args.token_info),
                display |-> IF TokenDisplay(args.token_info) # "" THEN TokenDisplay(args.token_info)
                            ELSE old.display])

\* lines 337-345
RecordStats(stats, args) ==
    LET old == DictGet(stats, StatsKey(args.token_info), DefaultStats)
        ok == IsSuccess(args.status_code)
    IN DictPut(stats, StatsKey(args.token_info),
               [success |-> IF ok THEN old.success + 1 ELSE old.success,
                failure |-> IF ok THEN old.failure ELSE old.failure + 1,
                source |-> TokenSource(args.token_info),
                display |-> IF TokenDisplay(args.token_info) # "" THEN TokenDisplay(args.token_info)
                            ELSE old.display])

\* lines 346-356: the entry; nth (history) is the number of the call
RecordEntry(args, clock, nth) ==
    [timestamp |-> clock, method |-> args.method, path |-> args.path,
     status_code |-> args.status_code, duration_ms |-> args.duration * 1000,
     client_ip |-> args.client_ip, token |-> TokenDisplay(args.token_info),
     error |-> args.error, nth |-> nth]

\* faulty variant of AppendLeft: a full deque drops the new entry
AppendLeftKeepOld(dq, e) ==
    IF Len(dq) >= RecentMax THEN dq ELSE <<e>> \o dq

\* line 357: deque.appendleft with maxlen: a full deque drops its last entry
AppendLeft(dq, e) ==
    IF Len(dq) >= RecentMax THEN <<e>> \o SubSeq(dq, 1, RecentMax - 1) ELSE <<e>> \o dq

\* record(), lines 334-358: the fields afterwards
RecordBody(m, args, clock) ==
    [total_requests |-> m.total_requests + 1,
     total_response_time |-> m.total_response_time + args.duration,
     success_requests |-> IF IsSuccess(args.status_code) THEN m.success_requests + 1
                          ELSE m.success_requests,
     failure_requests |-> IF IsSuccess(args.status_code) THEN m.failure_requests
                          ELSE m.failure_requests + 1,
     token_stats |-> RecordStats(m.token_stats, args),
     recent_requests |-> AppendLeft(m.recent_requests,
                                    RecordEntry(args, clock, m.total_requests + 1))]

\* snapshot(), line 362 and 385: the average in hundredths of a millisecond
\* (round(average * 1000, 2)), rounded to the nearest
AverageResponseTime(m) ==
    IF m.total_requests = 0 THEN 0
    ELSE (2 * m.total_response_time * 100000 + m.total_requests) \div (2 * m.total_requests)

\* snapshot(), lines 365-380: the report of one key
StatsItem(key, stats) ==
    LET token_id == IF SubSeq(key, 1, 2) = "__" THEN "" ELSE key
    IN [token_id |-> token_id,
        display |-> IF token_id = "" /\ stats.source = "anonymous" THEN AnonymousDisplay
                    ELSE IF token_id # ""
                       THEN (IF stats.display # NoDisplay THEN stats.display ELSE "Token")
                    ELSE stats.source,
        source |-> stats.source, success |-> stats.success, failure |-> stats.failure]

\* snapshot(), lines 381-388: what it returns
MetricsReport(m) ==
    [total_requests |-> m.total_requests, success_requests |-> m.success_requests,
     failure_requests |-> m.failure_requests,
     average_response_time |-> AverageResponseTime(m),
     recent_requests |-> m.recent_requests,
     token_stats |-> [k \in DOMAIN m.token_stats |-> StatsItem(k, m.token_stats[k])]]

\* faulty variant of SnapshotMetrics: the report is built with
\* self._token_stats[key], which makes the key it asks for
SnapshotMetricsTouching(m) ==
    [m EXCEPT !.token_stats = DictSetDefault(@, "__none__", DefaultStats)]

\* snapshot(), lines 361-388: the fields afterwards
SnapshotMetrics(m) == m

\* everything but the RequestMetrics instance
metricSide ==
    <<poolSide, fmtVars, sessVars, parseVars, callVars, persistVars, lockVars>>

\* request_metrics.record(...): the whole call
MetricsRecord(args) ==
    /\ IF "window" \in watch
          THEN args = WindowArgs /\ request_metrics.total_requests < WindowCalls
          ELSE IF "mixed" \in watch
          THEN /\ request_metrics.total_requests < RecentMax + MaxMixed
               /\ IF request_metrics.total_requests < RecentMax - MaxMixed
                     THEN args = WindowArgs ELSE args \in MixedArgs
          ELSE request_metrics.total_requests < MaxRecords
    /\ request_metrics' = RecordBody(request_metrics, args, now)
    /\ metrics_ret' = [op |-> "record", args |-> args,
                       entry |-> RecordEntry(args, now, request_metrics.total_requests + 1)]
    /\ UNCHANGED metricSide

\* request_metrics.snapshot(): the whole call
MetricsSnapshot ==
    /\ request_metrics' = SnapshotMetrics(request_metrics)
    /\ metrics_ret' = [op |-> "snapshot", report |-> MetricsReport(request_metrics)]
    /\ UNCHANGED metricSide

MetricsNext ==
    \/ \E args \in RecordArgs : MetricsRecord(args)
    \/ MetricsSnapshot

\* the RequestMetrics instance, called with any arguments
SpecMetrics == FormatInit({"reasoning"}) /\ [][MetricsNext]_vars

\* the same, called with the same arguments until the window has been filled
SpecWindow ==
    /\ PoolStart(<<>>, 1, {"window"}) /\ OutsideStart({"reasoning"})
    /\ [][MetricsNext]_vars

\* the same, called with the same arguments until the window is nearly full
\* and with several arguments from then on
SpecMixed ==
    /\ PoolStart(<<>>, 1, {"mixed"}) /\ OutsideStart({"reasoning"})
    /\ [][MetricsNext]_vars

(* ------------------------------------------------------------------ *)
(* One call of the upstream: utils.request.token (lines 1515-1561),     *)
(* utils.request.chat (lines 1397-1439), the handler and its            *)
(* generate_stream (lines 2268-2407), _finalize_upstream_response       *)
(* (lines 413-438). One request is handled at a time                    *)
(* ------------------------------------------------------------------ *)

\* the credentials token() falls back on when the pool gives none: the
\* configured one (which the pool may get later as well), an anonymous one,
\* or none at all
FallbackInfos ==
    {TokenInfo("static", "S"), TokenInfo("static", "A"), TokenInfo("anonymous", "N"),
     TokenInfo("anonymous", "")}
\* str(exc) of an exception: it may be empty
ExcTexts == {"", "boom"}
\* the statuses of the responses of the upstream
UpstreamStatuses == {200, 204, 500}

\* faulty variant of PoolContains: every credential that is not empty
PoolContainsAny(t) == t # ""

\* TokenPool.contains, lines 198-199
PoolContains(t) == t # "" /\ t \in Range(tokens)

\* faulty variant of MarksPool: the outcome is reported for a credential that
\* token() had from the pool
MarksPoolBySource(info) == info.source = "pool"

\* lines 432-433 and 1437: the outcome of a call is reported to the pool when
\* the pool holds its credential at that moment, whatever its source
MarksPool(info) == PoolContains(info.token)

\* record() takes an error that is None or "" as no error (line 355)
RecordError(error) == IF error = None THEN NoError ELSE error

\* the arguments _record_upstream_metrics hands to record(), lines 394-410
UpstreamArgs(status_code, error, info) ==
    [method |-> "POST", path |-> "/chat", status_code |-> status_code, duration |-> 1,
     client_ip |-> "ip", token_info |-> info, error |-> RecordError(error)]

\* faulty variant of FinalizeStatus: the status of the response is reported
\* whatever the error
FinalizeStatusKept(error, status) == status

\* line 422
FinalizeStatus(error, status) == IF error = None THEN status ELSE NoStatus

\* line 434
FinalizeSuccess(error, status_code) ==
    error = None /\ status_code # NoStatus /\ 200 <= status_code /\ status_code < 400

\* the counters that the report of an outcome changes (history)
CountsNow(t) ==
    [success_requests |-> request_metrics.success_requests,
     failure_requests |-> request_metrics.failure_requests,
     failures |-> DictGet(failures, t, 0), successes |-> DictGet(successes, t, 0),
     contained |-> PoolContains(t)]

\* what no step of a call changes
callSide ==
    <<now, pending, histVars, watch, snap, fmtVars, sessVars, parseVars, metrics_ret,
      persistVars, lockVars>>

\* utils.request.token(): the credential of the pool, else another one
CallToken ==
    /\ call.pc \in {"idle", "done", "failed"}
    /\ call.n < MaxCalls
    /\ GetStep
    /\ LET t == GetToken(GetAvailable(tokens, disabled, now), index)
       IN \E info \in (IF t # None THEN {TokenInfo("pool", t)} ELSE FallbackInfos) :
             call' = [NoUpstreamCall EXCEPT !.pc = "token", !.token_info = info,
                                            !.n = call.n + 1]
    /\ UNCHANGED <<request_metrics, callSide>>

\* requests.post raises (lines 1426-1439): a metric without status, the
\* credential marked failed when the pool has it, the exception raised again
CallPostRaises(error) ==
    /\ call.pc = "token"
    /\ LET t == call.token_info.token
           args == UpstreamArgs(NoStatus, error, call.token_info)
       IN /\ request_metrics' = RecordBody(request_metrics, args, now)
          /\ IF MarksPool(call.token_info) THEN MarkFailureBody(t) ELSE UNCHANGED poolVars
          /\ call' = [call EXCEPT
                         !.pc = "failed", !.path = "transport",
                         !.metric = RecordEntry(args, now, request_metrics.total_requests + 1),
                         !.mark = IF MarksPool(call.token_info) THEN "failure" ELSE "none",
                         !.was = CountsNow(t)]
    /\ UNCHANGED <<ret, callSide>>

\* requests.post returns a response (lines 1401-1425): a metric with its
\* status, and the response gets its _metrics_context
CallPostReturns(status) ==
    /\ call.pc = "token"
    /\ request_metrics' =
          RecordBody(request_metrics, UpstreamArgs(status, None, call.token_info), now)
    /\ call' = [call EXCEPT !.pc = "obtained", !.status = status, !.finalized = FALSE]
    /\ UNCHANGED <<poolVars, ret, callSide>>

\* faulty variant of AlreadyFinalized: the flag is not looked at
AlreadyFinalizedNever(finalized) == FALSE

\* line 415: context.get("finalized")
AlreadyFinalized(finalized) == finalized

\* _finalize_upstream_response(response, error=error), lines 413-438, ending
\* the call on the given path
Finalize(error, path) ==
    LET t == call.token_info.token
        status_code == FinalizeStatus(error, call.status)
        args == UpstreamArgs(status_code, error, call.token_info)
        success == FinalizeSuccess(error, status_code)
    IN IF AlreadyFinalized(call.finalized)
          THEN /\ call' = [call EXCEPT !.pc = "done", !.finals = @ + 1]
               /\ UNCHANGED <<request_metrics, poolVars>>
          ELSE /\ request_metrics' = RecordBody(request_metrics, args, now)
               /\ IF MarksPool(call.token_info)
                     THEN IF success THEN MarkSuccessBody(t) ELSE MarkFailureBody(t)
                     ELSE UNCHANGED poolVars
               /\ call' = [call EXCEPT
                              !.pc = "done", !.finalized = TRUE, !.path = path,
                              !.finals = @ + 1,
                              !.metric = RecordEntry(args, now,
                                                     request_metrics.total_requests + 1),
                              !.mark = IF ~MarksPool(call.token_info) THEN "none"
                                       ELSE IF success THEN "success" ELSE "failure",
                              !.was = CountsNow(t)]

\* the status is not 200 (lines 2269-2274): the handler answers with the error
CallNon200 ==
    /\ call.pc = "obtained"
    /\ call.status # 200
    /\ Finalize("HTTP", "non200")
    /\ UNCHANGED <<ret, callSide>>

\* the status is 200: the handler returns generate_stream(), which is read
CallStream ==
    /\ call.pc = "obtained"
    /\ call.status = 200
    /\ call' = [call EXCEPT !.pc = "streaming"]
    /\ UNCHANGED <<poolVars, request_metrics, ret, callSide>>

\* the stream is read to its end (lines 2307-2337, 2344-2345)
CallStreamEnd ==
    /\ call.pc = "streaming"
    /\ Finalize(None, "complete")
    /\ UNCHANGED <<ret, callSide>>

\* an exception while the stream is read (lines 2341-2345); str(exc) may be empty
CallStreamRaises(error) ==
    /\ call.pc = "streaming"
    /\ Finalize(error, "error")
    /\ UNCHANGED <<ret, callSide>>

\* the consumer stops reading: GeneratorExit (lines 2338-2340, 2344-2345)
CallCancel ==
    /\ call.pc = "streaming"
    /\ Finalize("client disconnected", "cancel")
    /\ UNCHANGED <<ret, callSide>>

\* the handler raises after the response was finalized (the answer of the
\* non-200 branch cannot be built, line 2271), and its except branch
\* finalizes the response once more (lines 2400-2403)
CallFinalizeAgain(error) ==
    /\ call.pc = "done"
    /\ call.finals < MaxFinalize
    /\ Finalize(error, call.path)
    /\ UNCHANGED <<ret, callSide>>

\* the management replaces the list of the pool (_update_token_pool, line
\* 282) while a request is handled
CallUpdate(list) ==
    /\ call.pc \in {"token", "obtained", "streaming"}
    /\ UpdateStep(list)
    /\ UNCHANGED <<request_metrics, call, callSide>>

\* the steps after a response was obtained
CallProgress ==
    \/ CallNon200
    \/ CallStream
    \/ CallStreamEnd
    \/ \E error \in ExcTexts : CallStreamRaises(error)
    \/ CallCancel

CallNext ==
    \/ CallToken
    \/ \E error \in ExcTexts : CallPostRaises(error)
    \/ \E status \in UpstreamStatuses : CallPostReturns(status)
    \/ CallProgress
    \/ \E error \in ExcTexts : CallFinalizeAgain(error)
    \/ \E list \in InitLists : CallUpdate(list)

\* a pool of any list with threshold 1
CallInit ==
    /\ \E list \in InitLists : PoolStart(list, 1, {})
    /\ OutsideStart({"reasoning"})

\* one request after the other
SpecCalls == CallInit /\ [][CallNext]_vars

\* the same; the handler goes on and the stream is read on, to its end, to
\* an exception or to the close() of the server
SpecCallsLive == CallInit /\ [][CallNext]_vars /\ WF_vars(CallProgress)

(* ------------------------------------------------------------------ *)
(* _update_token_pool (lines 281-283) and _persist_token_pool (lines    *)
(* 87-93), called by two threads. update() and tokens() hold the lock   *)
(* of the pool; the file is written with no lock held                   *)
(* ------------------------------------------------------------------ *)

\* what no step of _update_token_pool changes
persistSide ==
    <<now, pending, histVars, watch, snap, fmtVars, sessVars, parseVars, metricVars,
      callVars, lockVars>>

\* line 282: token_pool.update(list)
PersistUpdate(u, list) ==
    /\ persist[u].pc = "idle"
    /\ persist[u].n < MaxUpdates
    /\ UpdateStep(list)
    /\ persist' = [persist EXCEPT ![u] = [@ EXCEPT !.pc = "updated", !.list = list,
                                                   !.n = @ + 1]]
    /\ UNCHANGED <<disk, persistSide>>

\* line 283, the argument: token_pool.tokens(), a copy of the list
PersistTokens(u) ==
    /\ persist[u].pc = "updated"
    /\ persist' = [persist EXCEPT ![u] = [@ EXCEPT !.pc = "copied", !.copy = tokens]]
    /\ UNCHANGED <<poolVars, ret, disk, persistSide>>

\* lines 89-91: the file is opened for writing and the document is dumped
PersistWrite(u) ==
    /\ persist[u].pc = "copied"
    /\ disk' = Document(persist[u].copy)
    /\ persist' = [persist EXCEPT ![u] = [@ EXCEPT !.pc = "idle"]]
    /\ UNCHANGED <<poolVars, ret, persistSide>>

\* lines 92-93: the directory, the open or the dump raises; a warning is
\* logged. The file is as it was, or empty when the open succeeded
PersistRaises(u) ==
    /\ persist[u].pc = "copied"
    /\ disk' \in {disk, Truncated}
    /\ persist' = [persist EXCEPT ![u] = [@ EXCEPT !.pc = "idle", !.failed = TRUE]]
    /\ UNCHANGED <<poolVars, ret, persistSide>>

PersistNext ==
    \E u \in Updaters :
        \/ \E list \in Lists : PersistUpdate(u, list)
        \/ PersistTokens(u)
        \/ PersistWrite(u)
        \/ PersistRaises(u)

\* two threads update and persist, from a pool of any list whose file was
\* written at the start (line 278)
SpecPersist ==
    /\ \E list \in InitLists : PoolStart(list, 1, {})
    /\ OutsideStart({"reasoning"})
    /\ [][PersistNext]_vars

(* ------------------------------------------------------------------ *)
(* The locks. A handler is the sequence of its calls that take a lock   *)
(* or reach the network or the file system: "pool" is a method of       *)
(* TokenPool with its `with self._lock:` block (lines 148-239),         *)
(* "metrics" a method of RequestMetrics with its block (lines 334-388), *)
(* "io" a call of requests or of open/json.dump                         *)
(* ------------------------------------------------------------------ *)

\* the chat handler with a credential of the pool: token() calls get(),
\* chat() posts and records, the stream is read, _finalize_upstream_response
\* records and marks (lines 1521, 1401, 1409, 2281, 424, 436-438)
ChatScript == <<"pool", "io", "metrics", "io", "metrics", "pool">>

\* the chat handler when the post raises: get(), the post, record(),
\* mark_failure (lines 1521, 1401, 1429, 1438)
ChatRaisesScript == <<"pool", "io", "metrics", "pool">>

\* the chat handler when the pool gives nothing: get(), the anonymous
\* credential is fetched, the post, record(), the stream, record(); contains()
\* takes no lock (lines 1521, 1534, 1401, 1409, 2281, 424, 433)
AnonymousScript == <<"pool", "io", "io", "metrics", "io", "metrics">>

\* faulty variant of UpdateScript: the file is written inside update()
UpdateScriptWritingInside == <<"pool+io", "pool">>

\* _update_token_pool: update(), tokens(), the file is written (lines 282,
\* 283, 87-93)
UpdateScript == <<"pool", "pool", "io">>

\* _build_dashboard_payload: the two snapshots (lines 500-501)
DashboardScript == <<"metrics", "pool">>

Scripts == {ChatScript, ChatRaisesScript, AnonymousScript, UpdateScript, DashboardScript}

\* the step that thread t is at, "end" after the last one
StepOf(t) ==
    IF threads[t].at >= 1 /\ threads[t].at <= Len(threads[t].script)
       THEN threads[t].script[threads[t].at] ELSE "end"

\* the lock that a step takes
LockOf(step) == IF step \in {"pool", "pool+io"} THEN "pool" ELSE "metrics"

\* what no step of a thread changes
lockSide ==
    <<poolSide, fmtVars, sessVars, parseVars, metricVars, callVars, persistVars>>

\* a request arrives and thread t runs its handler
ThreadStart(t, script) ==
    /\ threads[t] = NoThread
    /\ threads' = [threads EXCEPT ![t] = [script |-> script, at |-> 1, in |-> "out"]]
    /\ UNCHANGED <<locks, lockSide>>

\* `with self._lock:` is entered: the thread waits until the lock is free
ThreadAcquire(t) ==
    /\ StepOf(t) \in {"pool", "metrics", "pool+io"}
    /\ threads[t].in = "out"
    /\ locks[LockOf(StepOf(t))] = Free
    /\ locks' = [locks EXCEPT ![LockOf(StepOf(t))] = t]
    /\ threads' = [threads EXCEPT ![t].in = IF StepOf(t) = "pool+io" THEN "held+io"
                                            ELSE "held"]
    /\ UNCHANGED lockSide

\* the block is left, at its end, by its return, or by an exception that ends
\* the handler: the `with` statement releases the lock on each of them
ThreadRelease(t, raises) ==
    /\ threads[t].in \in {"held", "held+io"}
    /\ locks' = [locks EXCEPT ![LockOf(StepOf(t))] = Free]
    /\ threads' = [threads EXCEPT ![t].in = "out",
                                  ![t].at = IF raises THEN Len(threads[t].script) + 1
                                            ELSE @ + 1]
    /\ UNCHANGED lockSide

\* a call of the network or of the file system begins
ThreadIO(t) ==
    /\ StepOf(t) = "io"
    /\ threads[t].in = "out"
    /\ threads' = [threads EXCEPT ![t].in = "io"]
    /\ UNCHANGED <<locks, lockSide>>

\* it returns, or it raises and the handler ends
ThreadIOEnd(t, raises) ==
    /\ threads[t].in = "io"
    /\ threads' = [threads EXCEPT ![t].in = "out",
                                  ![t].at = IF raises THEN Len(threads[t].script) + 1
                                            ELSE @ + 1]
    /\ UNCHANGED <<locks, lockSide>>

\* the handler returns
ThreadEnd(t) ==
    /\ threads[t] # NoThread
    /\ StepOf(t) = "end"
    /\ threads' = [threads EXCEPT ![t] = NoThread]
    /\ UNCHANGED <<locks, lockSide>>

LockNext ==
    \E t \in Threads :
        \/ \E script \in Scripts : ThreadStart(t, script)
        \/ ThreadAcquire(t)
        \/ \E raises \in BOOLEAN : ThreadRelease(t, raises)
        \/ ThreadIO(t)
        \/ \E raises \in BOOLEAN : ThreadIOEnd(t, raises)
        \/ ThreadEnd(t)

\* two request threads, each running one handler after the other
SpecLocks == FormatInit({"reasoning"}) /\ [][LockNext]_vars

(* ------------------------------------------------------------------ *)
(* Claims about the pool                                               *)
(* ------------------------------------------------------------------ *)

FailCount(c) == DictGet(failures, c, 0)
SuccCount(c) == DictGet(successes, c, 0)
HealthKeys == (DOMAIN failures) \cup (DOMAIN successes) \cup (DOMAIN disabled)

\* C1, as claimed: once c has had exactly `threshold` consecutive failures and no
\* success since, no get() returns c before the cooldown has elapsed, whatever
\* other calls were made in between.
C1_CooldownWhateverHappens ==
    \A c \in Creds :
        (ret = c /\ hitAt.orig[c] # Never)
            => now - hitAt.orig[c] >= TOKEN_POOL_RESET_FAILURES

\* C1, amended: the same, as long as c has stayed in the pool and no get() has
\* found every credential cooling down (and cleared all cooldowns) in between.
C1_Cooldown ==
    \A c \in Creds :
        (ret = c /\ hitAt.kept[c] # Never)
            => now - hitAt.kept[c] >= TOKEN_POOL_RESET_FAILURES

\* get() has just returned another credential while c, which reached the
\* threshold, is still inside its cooldown
C1_Witness ==
    \E c \in Range(tokens) :
        /\ hitAt.kept[c] # Never
        /\ now - hitAt.kept[c] < TOKEN_POOL_RESET_FAILURES
        /\ ret \in Range(tokens) \ {c}

\* the element after t in avail, cyclically
CyclicNext(avail, t) ==
    LET i == CHOOSE k \in 1..Len(avail) : avail[k] = t
    IN avail[(i % Len(avail)) + 1]

\* C2: in a run of consecutive get() calls over an unchanged, non-empty available
\* set of N credentials, every call returns the cyclic successor of the credential
\* the previous call returned, and after k*N calls each available credential has
\* been returned exactly k times.
C2_RoundRobin ==
    LET n == Len(run.avail)
        m == Len(run.rets)
    IN m > 0 =>
        /\ \A i \in 1..m : run.rets[i] \in Range(run.avail)
        /\ \A i \in 1..(m - 1) : run.rets[i + 1] = CyclicNext(run.avail, run.rets[i])
        /\ (m % n = 0) =>
              \A c \in Range(run.avail) :
                  Cardinality({i \in 1..m : run.rets[i] = c}) = m \div n

\* two full rounds over two available credentials
C2_Witness == Len(run.avail) = 2 /\ Len(run.rets) = 4

\* C3: a get() that finds a non-empty pool with every credential cooling down
\* leaves no disabled_at at all and returns a credential of the pool.
C3_FailOpen ==
    [][(ret' # NoCall /\ tokens # <<>> /\ AvailableTokens(tokens, disabled, now) = <<>>)
          => (DOMAIN disabled' = {} /\ ret' \in Range(tokens))]_vars

\* get() has returned a credential although every credential of the pool has
\* reached the threshold, and no disabled_at is left
C3_Witness ==
    /\ Len(tokens) = 2
    /\ ret \in Range(tokens)
    /\ DOMAIN disabled = {}
    /\ \A c \in Range(tokens) : FailCount(c) >= failure_threshold

\* C4: get() returns none exactly when the list is empty, and otherwise a
\* credential of the list.
C4_Exhaustion ==
    ret # NoCall =>
        /\ (ret = None) <=> (tokens = <<>>)
        /\ tokens # <<>> => ret \in Range(tokens)

\* get() on the empty pool returned none
C4_Witness == ret = None /\ tokens = <<>>

\* C5: get() returns a credential that is cooling down only if no credential is
\* available; it returns the credential at position (cursor mod n) of the
\* available credentials, in list order, and sets the cursor to (cursor + 1) mod n.
C5_Rotation ==
    [][ret' # NoCall =>
          LET a0 == AvailableTokens(tokens, disabled, now)
              eff == IF a0 = <<>> THEN tokens ELSE a0
              n == Len(eff)
          IN /\ (ret' \in Creds /\ IsCooling(disabled, ret', now)) => a0 = <<>>
             /\ n > 0 => /\ ret' = eff[(index % n) + 1]
                         /\ index' = (index + 1) % n]_vars

\* get() returned B while A is cooling down
C5_Witness ==
    /\ tokens = <<"A", "B">>
    /\ ret = "B"
    /\ IsCooling(disabled, "A", now)

\* C6: from the pool <<A, B>> with threshold 1 and a fresh cursor, the calls
\* get, mark_failure(A), get, get, (cooldown elapses), get return A, B, B, A.
C6_Scenario ==
    \A i \in 1..Len(scen.rets) : scen.rets[i] = <<"A", "B", "B", "A">>[i]

\* the scenario has been played to its end
C6_Witness == scen.stage = 5

\* C7: after update(list) no failure count, success count or disabled_at is
\* left for a credential that is not in the new list.
C7_UpdatePrunes ==
    last.op = "update" => HealthKeys \subseteq Range(tokens)

\* C8: when a mark_success(c) or mark_failure(c) call and an update(list) call
\* without c have both finished, whatever their interleaving, the pool holds no
\* record for c. Stated here for the records a mark_failure writes, the failure
\* count and disabled_at, which update() prunes whenever it runs after the mark.
C8_MarkVersusUpdate ==
    (\A w \in Workers : pending[w] = Idle)
        => ((DOMAIN failures) \cup (DOMAIN disabled)) \subseteq Range(tokens)

\* C9: update(list) with the credentials of the current list (any order, with
\* repetitions) sets the cursor to 0 and leaves each credential's failure count,
\* success count and disabled_at as they were; the same update applied again
\* changes nothing (it computes the same list, which is the list now stored).
C9_UpdateSameContents ==
    [][(last'.op = "update" /\ last'.same) =>
          /\ index' = 0
          /\ \A c \in Range(tokens) :
                /\ DictGet(failures', c, 0) = FailCount(c)
                /\ DictGet(successes', c, 0) = SuccCount(c)
                /\ (c \in DOMAIN disabled') = (c \in DOMAIN disabled)
                /\ c \in DOMAIN disabled => disabled'[c] = disabled[c]
          /\ LET again == tokens'
             IN /\ Unique(again) = again
                /\ UpdateTokenIds(again) = token_ids'
                /\ UpdateFailures(failures', again) = failures'
                /\ UpdateDisabled(disabled', failures', again) = disabled'
                /\ UpdateSuccesses(successes', failures', again) = successes']_vars

\* update() was called with the credentials of the list in another order, while
\* one of them was disabled and another had a success counted
C9_Witness ==
    /\ last.op = "update"
    /\ last.same
    /\ last.moved
    /\ DOMAIN disabled # {}
    /\ \E c \in Range(tokens) : SuccCount(c) > 0

\* the input without its empty strings and without the later occurrences of a
\* credential
FirstOccurrences(list) ==
    LET keep == {i \in 1..Len(list) :
                    list[i] # "" /\ \A j \in 1..(i - 1) : list[j] # list[i]}
        nth(k) == CHOOSE i \in keep : Cardinality({j \in keep : j <= i}) = k
    IN [k \in 1..Cardinality(keep) |-> list[nth(k)]]

ListInvariant ==
    /\ \A i, j \in 1..Len(tokens) : tokens[i] = tokens[j] => i = j
    /\ "" \notin Range(tokens)
    /\ DOMAIN token_ids = {TokenIdentifier(c) : c \in Range(tokens)}
    /\ \A c \in Range(tokens) : token_ids[TokenIdentifier(c)] = c
    /\ \A c, d \in Range(tokens) : TokenIdentifier(c) = TokenIdentifier(d) => c = d

\* right after update(list) or the constructor the list is the input in
\* first-occurrence order
ListIsInput == last.op # "other" => tokens = FirstOccurrences(last.list)

\* C10: the list never holds a credential twice nor the empty string, it is the
\* input of the last update() (or of the constructor) in first-occurrence order,
\* and the identity map has exactly the entry identity(c) -> c for each c of it:
\* true at the start, true after every call, and only update() changes the list.
C10_ListAndIdentities ==
    /\ ListInvariant /\ ListIsInput
    /\ [][/\ ListInvariant' /\ ListIsInput'
          /\ last'.op = "other" => (tokens' = tokens /\ token_ids' = token_ids)]_vars

\* update() was given a list with a repetition or an empty string and kept a
\* credential of it
C10_Witness ==
    /\ last.op = "update"
    /\ tokens # <<>>
    /\ Len(last.list) > Len(tokens)

\* C11: whenever the list is not empty the cursor is a position of it,
\* 0 <= cursor < |list|, after any calls (updates that shrink or empty the list
\* and changes of the available credentials between get() calls included).
C11_CursorValid ==
    tokens # <<>> => (0 <= index /\ index < Len(tokens))

\* the cursor was advanced over two available credentials and then one of them
\* was disabled: the cursor is past the end of the available credentials
C11_Witness ==
    /\ Len(tokens) = 2
    /\ index = 1
    /\ Len(AvailableTokens(tokens, disabled, now)) = 1

\* the health of every credential but t, the list and the cursor stay as they are
OthersKept(t) ==
    /\ tokens' = tokens
    /\ index' = index
    /\ \A d \in Creds \ {t} :
          /\ DictGet(failures', d, 0) = FailCount(d)
          /\ DictGet(successes', d, 0) = SuccCount(d)
          /\ (d \in DOMAIN disabled') = (d \in DOMAIN disabled)
          /\ d \in DOMAIN disabled => disabled'[d] = disabled[d]

\* C12: mark_success(c) for c in the pool leaves c with failure count 0 and no
\* disabled_at, so that c is among the credentials the next get() rotates over,
\* and leaves the health of every other credential, the list and the cursor
\* unchanged; for c not in the pool, or none, nothing of the pool changes.
C12_MarkSuccess ==
    [][\A t \in MarkArgs :
          MarkSuccess(t) =>
             IF t \in Creds /\ t \in Range(tokens)
             THEN /\ DictGet(failures', t, 0) = 0
                  /\ t \notin DOMAIN disabled'
                  /\ t \in Range(AvailableTokens(tokens', disabled', now'))
                  /\ OthersKept(t)
             ELSE UNCHANGED poolVars]_vars

\* a credential has had its success counted and its failure count dropped while
\* the other credential of the pool is still disabled with its failures
C12_Witness ==
    \E c, d \in Range(tokens) :
        /\ c # d
        /\ SuccCount(c) = 1
        /\ c \notin DOMAIN failures
        /\ c \notin DOMAIN disabled
        /\ d \in DOMAIN disabled
        /\ FailCount(d) >= failure_threshold

\* C13: mark_failure(c) for c in the pool adds exactly one to c's failure count;
\* when the new count is at the threshold (or beyond it) disabled_at becomes the
\* current time, and when it is below the threshold no disabled_at is written
\* and c stays available; for c not in the pool, or none, nothing changes.
C13_MarkFailure ==
    [][\A t \in MarkArgs :
          MarkFailure(t) =>
             IF t \in Creds /\ t \in Range(tokens)
             THEN /\ DictGet(failures', t, 0) = FailCount(t) + 1
                  /\ DictGet(failures', t, 0) >= failure_threshold
                        => (t \in DOMAIN disabled' /\ disabled'[t] = now)
                  /\ DictGet(failures', t, 0) < failure_threshold
                        => /\ disabled' = disabled
                           /\ t \in Range(AvailableTokens(tokens', disabled', now'))
                  /\ OthersKept(t)
             ELSE UNCHANGED poolVars]_vars

\* a credential was disabled just now, at its second failure, with threshold 2
C13_Witness ==
    \E c \in Range(tokens) :
        /\ failure_threshold = 2
        /\ FailCount(c) = 2
        /\ c \in DOMAIN disabled
        /\ disabled[c] = now
        /\ now > 0

\* what C14 says of the report, given which credentials count as disabled
SnapshotReadOnly(flagged(_)) ==
    snap' # NoSnap =>
        /\ UNCHANGED poolVars
        /\ Len(snap'.tokens) = Len(tokens)
        /\ \A i \in 1..Len(tokens) :
              /\ ~IsCooling(disabled, tokens[i], now)
                    => snap'.tokens[i].cooldown_seconds = 0
              /\ snap'.tokens[i].disabled = flagged(tokens[i])

\* the credentials get() rotates over, after its reset when all are cooling down
ExcludedByGet(t) == t \notin Range(GetAvailable(tokens, disabled, now))

\* C14, as claimed: snapshot() changes nothing of the pool, reports cooldown 0
\* for a credential without a running cooldown, and flags as disabled exactly
\* the credentials that get() would exclude.
C14_SnapshotAsGet == [][SnapshotReadOnly(ExcludedByGet)]_vars

\* the credentials whose cooldown is running
InCooldown(t) == IsCooling(disabled, t, now)

\* C14, amended: the same, where the flag is true exactly for the credentials
\* whose cooldown is running; when every credential is cooling down all are
\* flagged, although the next get() clears the cooldowns and returns one of them.
C14_Snapshot == [][SnapshotReadOnly(InCooldown)]_vars

\* snapshot() has reported a credential whose cooldown has elapsed (disabled_at
\* still recorded, 0 seconds left, not flagged) next to one that is cooling down
C14_Witness ==
    /\ snap # NoSnap
    /\ \E i, j \in 1..Len(snap.tokens) :
          /\ snap.tokens[i].last_disabled_at # Never
          /\ snap.tokens[i].cooldown_seconds = 0
          /\ ~snap.tokens[i].disabled
          /\ snap.tokens[j].disabled
          /\ snap.tokens[j].cooldown_seconds > 0

(* ------------------------------------------------------------------ *)
(* Claims about response.format                                        *)
(* ------------------------------------------------------------------ *)

\* a record with this phase and with a text has just been formatted
Formatted(phase) ==
    /\ pc = "formatted"
    /\ chunk.shape = "keyed"
    /\ chunk.phase = phase
    /\ ChunkContent(chunk).kind = "text"
    /\ ChunkContent(chunk).text # <<>>

\* the text of that record
RawText == ChunkContent(chunk).text

\* the spellings of the close marker: as the upstream sends it, as the
\* extraction writes it when nothing follows it, and as it writes it at a splice
CloseMarkers ==
    {<<DetailsClose>>, <<Nl, Nl, ReasoningClose>>, <<Nl, Nl, ReasoningClose, Nl, Nl>>}

\* t with at most one leading newline stripped
StripOneNl(t) == {t} \cup (IF t # <<>> /\ Head(t) = Nl THEN {Tail(t)} ELSE {})

\* C15: for an answer record that follows a thinking record and whose text is
\* the close marker followed by non-blank text T, the text after the extraction
\* is the close marker followed by T with at most one leading newline stripped.
C15_BoundarySplice ==
    (/\ Formatted("answer")
     /\ phaseWas = "thinking"
     /\ RawText # <<>> /\ Head(RawText) = DetailsClose
     /\ NotBlank(Tail(RawText)))
        => canon \in {m \o t : m \in CloseMarkers, t \in StripOneNl(Tail(RawText))}

\* the text of the second record holds no close marker
NoNewClose == \A i \in 1..Len(RawText) : RawText[i] # DetailsClose

\* the second record is handled by the extraction and shows a close marker
\* followed by non-blank text
ClosesAgain ==
    /\ Extracts("answer", RawText)
    /\ Matched(Canonical("answer", RawText))
    /\ NotBlank(After(Canonical("answer", RawText)))

Markers ==
    {DetailsOpen, DetailsClose, ReasoningOpen, ReasoningClose, ThinkOpen, ThinkClose,
     WrapperOpen, DivClose}

\* C17: in mode reasoning the records thinking:"Hello", answer:"</details>World"
\* give a reasoning_content delta with Hello and then a content delta with
\* World, and no delta holds an open or close marker.
C17_Scenario ==
    /\ Len(scene) >= 1 => scene[1] = [kind |-> "reasoning_content", text |-> Hello]
    /\ Len(scene) >= 2 => scene[2] = [kind |-> "content", text |-> World]
    /\ \A i \in 1..Len(scene) : \A j \in 1..Len(scene[i].text) :
          scene[i].text[j] \notin Markers

\* C18: the delta is reasoning_content for a thinking record in mode reasoning;
\* otherwise content when the text is not empty (for a tool_call record too);
\* otherwise tool_call_fragment for a tool_call record; otherwise there is none;
\* so a content delta never has empty text.
C18_OutputShaping ==
    pc = "formatted" /\ delta.kind # "none" =>
        /\ delta.kind =
              IF think = "reasoning" /\ phaseBak = "thinking" THEN "reasoning_content"
              ELSE IF delta.text # <<>> THEN "content"
              ELSE IF phaseBak = "tool_call" THEN "tool_call"
              ELSE "none"
        /\ delta.kind = "content" => delta.text # <<>>

\* C19: response.format raises for no record, in no rendering mode, and the
\* records that follow in the stream are formatted too.
C19_NeverAborts ==
    /\ delta.kind # "raise"
    /\ pc # "aborted"

\* C20: in rendering mode strip no delta is a reasoning_content delta.
C20_StripMode ==
    think = "strip" => delta.kind # "reasoning_content"

\* a thinking record with markers was formatted in mode strip and its text
\* was emitted as content
C20_Witness ==
    /\ think = "strip"
    /\ Formatted("thinking")
    /\ \E i \in 1..Len(RawText) : RawText[i] = DetailsOpen
    /\ delta.kind = "content"
    /\ delta.text # <<>>

\* the spellings of the think tags
ThinkTags == {ThinkOpen, ThinkClose}

\* C21: in rendering mode think the delta of a thinking or answer record holds
\* no canonical open or close marker, and every open or close marker in it is
\* a think tag.
C21_ThinkMode ==
    (think = "think" /\ (Formatted("thinking") \/ Formatted("answer"))) =>
        \A i \in 1..Len(delta.text) :
            /\ delta.text[i] \notin {ReasoningOpen, ReasoningClose}
            /\ delta.text[i] \in Markers => delta.text[i] \in ThinkTags

\* the field is missing or holds the empty text
EmptyField(f) == f.kind = "absent" \/ (f.kind = "text" /\ f.text = <<>>)

\* the record formatted last has no "data", or its "data" has no text in
\* delta_content and none in edit_content
NoPayloadOrText ==
    /\ pc \in {"formatted", "aborted"}
    /\ \/ chunk.shape = "nodata"
       \/ /\ chunk.shape = "keyed"
          /\ EmptyField(chunk.delta_content)
          /\ EmptyField(chunk.edit_content)

\* C22: for a record without payload, or with empty text in both delta_content
\* and edit_content, response.format returns nothing (and does not raise).
C22_EmptyEmitsNothing ==
    NoPayloadOrText => (pc = "formatted" /\ delta.kind = "none")

\* a record whose delta_content and edit_content are both the empty text was
\* formatted after an answer record, and nothing was returned for it
C22_Witness ==
    /\ NoPayloadOrText
    /\ chunk.shape = "keyed"
    /\ chunk.delta_content = Text(<<>>)
    /\ chunk.edit_content = Text(<<>>)
    /\ phaseWas = "answer"
    /\ delta.kind = "none"

\* request s has formatted the answer record that closes the thinking block
\* and goes on
ClosedBy(s) ==
    /\ sess[s].pc = "formatted"
    /\ sess[s].chunk = Keyed("answer", Text(Closing), Absent)

\* the delta of request s is the boundary splice: the close marker and the
\* text after it
IsSplice(s) ==
    sess[s].canon =
        <<Nl, Nl, ReasoningClose, Nl, Nl>> \o LStripNl(After(Canonical("answer", Closing)))

\* the delta of request s is suppressed
IsSuppressed(s) == sess[s].canon = <<>> /\ sess[s].delta.text = <<>>

\* the phase of the record whose format call wrote phaseBak last before
\* request s read it ("thinking" when none has written)
PhaseFound(s) ==
    IF sess[s].src.by = "start" THEN "thinking" ELSE ChunkPhase(sess[s].src.rec)

\* C23: the previous phase a request reads is the phase of the record
\* formatted last, by this request or by the other one; and for the answer
\* record that closes the thinking block the delta is the boundary splice when
\* the phase read is thinking and empty when the phase read is answer.
C23_SharedPhaseMemory ==
    \A s \in Sessions :
        /\ sess[s].seen # NotRead => sess[s].seen = PhaseFound(s)
        /\ ClosedBy(s) =>
              /\ sess[s].seen = "thinking" => IsSplice(s)
              /\ sess[s].seen2 = "answer" => IsSuppressed(s)

\* both requests had the records thinking:"Hello" and then the closing answer
\* record; the first got the boundary splice, the second read the phase that
\* the first one's answer record wrote and got the empty text
C23_Witness ==
    /\ sess["s1"].local = sess["s2"].local
    /\ Len(sess["s1"].local) = 2
    /\ sess["s1"].local[1] = Keyed("thinking", Text(Hello), Absent)
    /\ ClosedBy("s1") /\ IsSplice("s1")
    /\ ClosedBy("s2") /\ IsSuppressed("s2")
    /\ sess["s2"].src = [by |-> "s1", rec |-> Keyed("answer", Text(Closing), Absent)]
    /\ sess["s2"].seen = "answer"

\* C24: what response.parse has yielded is, in the order of the lines, the
\* decoded record of every line read that is not blank, starts with the prefix
\* and decodes; no line makes it raise; and after the input has ended it has
\* yielded the same for all the lines of the input.
C24_Parser ==
    /\ parser.out = parser.want
    /\ parser.pc # "raised"

\* the parser has read two lines, has skipped one of them and yielded the
\* record of the other, and has ended with the input
C24_Witness ==
    /\ parser.pc = "ended"
    /\ parser.n = 2
    /\ Len(parser.out) = 1
    /\ parser.out[1].shape = "scalar"
    /\ parser.want = parser.out

(* ------------------------------------------------------------------ *)
(* Claims about RequestMetrics                                          *)
(* ------------------------------------------------------------------ *)

Min(a, b) == IF a <= b THEN a ELSE b

\* C25: after n calls of record() the buffer holds the min(n, 100) entries
\* recorded last, newest first: its i-th entry is that of call n - i + 1.
C25_RollingWindow ==
    LET n == request_metrics.total_requests
        recent == request_metrics.recent_requests
    IN /\ Len(recent) = Min(n, 100)
       /\ \A i \in 1..Len(recent) : recent[i].nth = n - i + 1

\* 150 calls were recorded: the buffer holds the entries of calls 150 down to 51
C25_Witness ==
    /\ request_metrics.total_requests = 150
    /\ Len(request_metrics.recent_requests) = 100
    /\ request_metrics.recent_requests[1].nth = 150
    /\ request_metrics.recent_requests[100].nth = 51

\* the counters of the key, 0 for a key that is not there
KeySuccess(m, key) == IF key \in DOMAIN m.token_stats THEN m.token_stats[key].success ELSE 0
KeyFailure(m, key) == IF key \in DOMAIN m.token_stats THEN m.token_stats[key].failure ELSE 0

\* the call is counted as a success (by 1) or as a failure (by 0), in the
\* totals and under its key
CountedAs(args, by) ==
    LET key == StatsKey(args.token_info)
    IN /\ request_metrics'.total_requests = request_metrics.total_requests + 1
       /\ request_metrics'.success_requests = request_metrics.success_requests + by
       /\ request_metrics'.failure_requests = request_metrics.failure_requests + (1 - by)
       /\ KeySuccess(request_metrics', key) = KeySuccess(request_metrics, key) + by
       /\ KeyFailure(request_metrics', key) = KeyFailure(request_metrics, key) + (1 - by)

\* C26: record() counts the call as a success exactly when the status is
\* present and in 200..399, and as a failure otherwise, in particular for a
\* status in 400..599 and for an absent status, whatever the other arguments.
C26_SuccessClassification ==
    [][\A args \in RecordArgs :
          MetricsRecord(args) =>
              /\ (args.status_code # NoStatus /\ args.status_code \in 200..399)
                    => CountedAs(args, 1)
              /\ (args.status_code = NoStatus \/ args.status_code \notin 200..399)
                    => CountedAs(args, 0)
              /\ (args.status_code = NoStatus \/ args.status_code \in 400..599)
                    => CountedAs(args, 0)]_vars

\* a call with status 399 and an error text was recorded after a call of the
\* same key that failed: the key has one success and one failure
C26_Witness ==
    /\ metrics_ret.op = "record"
    /\ metrics_ret.args.status_code = 399
    /\ metrics_ret.args.error # NoError
    /\ request_metrics.success_requests = 1
    /\ request_metrics.failure_requests = 1
    /\ LET key == StatsKey(metrics_ret.args.token_info)
       IN /\ request_metrics.token_stats[key].success = 1
          /\ request_metrics.token_stats[key].failure = 1

\* C27: snapshot() leaves the totals, the cumulative duration, the buffer and
\* the per-key counters with their set of keys as they are, and a snapshot()
\* right after a snapshot() returns the same report.
C27_MetricsSnapshotReadOnly ==
    [][MetricsSnapshot =>
          /\ request_metrics'.total_requests = request_metrics.total_requests
          /\ request_metrics'.success_requests = request_metrics.success_requests
          /\ request_metrics'.failure_requests = request_metrics.failure_requests
          /\ request_metrics'.total_response_time = request_metrics.total_response_time
          /\ request_metrics'.recent_requests = request_metrics.recent_requests
          /\ DOMAIN request_metrics'.token_stats = DOMAIN request_metrics.token_stats
          /\ request_metrics'.token_stats = request_metrics.token_stats
          /\ metrics_ret.op = "snapshot" => metrics_ret' = metrics_ret]_vars

\* snapshot() was called after two calls under two keys were recorded, and
\* reports both
C27_Witness ==
    /\ metrics_ret.op = "snapshot"
    /\ metrics_ret.report.total_requests = 2
    /\ Len(metrics_ret.report.recent_requests) = 2
    /\ Cardinality(DOMAIN metrics_ret.report.token_stats) = 2
    /\ request_metrics.total_response_time = 2

(* ------------------------------------------------------------------ *)
(* Claims about the calls of the upstream                               *)
(* ------------------------------------------------------------------ *)

\* the call was made with a credential that came from the pool
FromPool == call.token_info.source = "pool"

\* the metrics got the entry of the outcome last, counted as a success (by 1)
\* or as a failure (by 0)
MetricsGot(by) ==
    /\ call.metric # NoEntry
    /\ request_metrics.recent_requests # <<>>
    /\ request_metrics.recent_requests[1] = call.metric
    /\ request_metrics.success_requests = call.was.success_requests + by
    /\ request_metrics.failure_requests = call.was.failure_requests + (1 - by)

\* the counters that the pool keeps of the credential of the call are as before
PoolAsBefore ==
    /\ DictGet(failures, call.token_info.token, 0) = call.was.failures
    /\ DictGet(successes, call.token_info.token, 0) = call.was.successes

\* the pool is as mark_failure of the credential of the call leaves it: one
\* failure more, or as before for a credential that the pool has no more
PoolGotFailure ==
    IF call.was.contained
       THEN /\ call.mark = "failure"
            /\ DictGet(failures, call.token_info.token, 0) = call.was.failures + 1
       ELSE PoolAsBefore

\* the pool is as mark_success of the credential of the call leaves it: one
\* success more and no failure, or as before for a credential that the pool
\* has no more
PoolGotSuccess ==
    IF call.was.contained
       THEN /\ call.mark = "success"
            /\ DictGet(successes, call.token_info.token, 0) = call.was.successes + 1
            /\ call.token_info.token \notin DOMAIN failures
            /\ call.token_info.token \notin DOMAIN disabled
       ELSE PoolAsBefore

\* the outcome of the call was reported as its path asks for
ReportedRight ==
    /\ call.pc = "done"
    /\ call.finalized
    /\ call.path \in {"non200", "error", "cancel"} =>
          /\ MetricsGot(0)
          /\ call.metric.status_code = NoStatus
          /\ FromPool => PoolGotFailure
    /\ call.path = "complete" =>
          /\ MetricsGot(1)
          /\ call.metric.status_code = 200
          /\ FromPool => PoolGotSuccess

TransportFailure(error) ==
    LET t == call.token_info.token
        was == request_metrics
        got == request_metrics'
    IN /\ got.total_requests = was.total_requests + 1
       /\ got.recent_requests # <<>>
       /\ Tail(got.recent_requests) = was.recent_requests
       /\ got.recent_requests[1].status_code = NoStatus
       /\ got.recent_requests[1].error = error
       /\ got.failure_requests = was.failure_requests + 1
       /\ got.success_requests = was.success_requests
       /\ IF t \in Range(tokens)
             THEN /\ failures'[t] = DictGet(failures, t, 0) + 1
                  /\ failures'[t] >= failure_threshold => t \in DOMAIN disabled'
                  /\ tokens' = tokens
             ELSE UNCHANGED poolVars
       /\ call'.pc = "failed"

\* C29: when the call of the upstream raises before a response is obtained,
\* exactly one metric is recorded, a failure without status and with the text
\* of the error; the credential is marked failed in the pool if the pool has
\* it, and the pool is left alone otherwise; the exception goes on to the
\* caller.
C29_TransportError ==
    [][\A error \in ExcTexts : CallPostRaises(error) => TransportFailure(error)]_vars

\* the call raised with a credential of the pool: the newest metric has no
\* status and the text of the error, and the credential has a failure
C29_Witness ==
    /\ call.pc = "failed"
    /\ call.path = "transport"
    /\ FromPool
    /\ call.mark = "failure"
    /\ request_metrics.total_requests = 1
    /\ request_metrics.recent_requests[1].status_code = NoStatus
    /\ request_metrics.recent_requests[1].error = "boom"
    /\ DictGet(failures, call.token_info.token, 0) = call.was.failures + 1

(* ------------------------------------------------------------------ *)
(* Claims about the state file                                          *)
(* ------------------------------------------------------------------ *)

\* every call of _update_token_pool has returned, one was made at least, and
\* no write raised
UpdatesFinished ==
    /\ \A u \in Updaters : persist[u].pc = "idle" /\ ~persist[u].failed
    /\ \E u \in Updaters : persist[u].n > 0

\* C30: after the concurrent calls of _update_token_pool have finished, with
\* every write done, the list in the state file is the list of the pool.
C30_PersistenceConsistency ==
    UpdatesFinished => disk = Document(tokens)

(* ------------------------------------------------------------------ *)
(* Claims about the phase memory                                        *)
(* ------------------------------------------------------------------ *)

\* the text holds glm_block
HoldsGlmBlock(content) == \E i \in 1..Len(content) : content[i] \in HasGlmBlock

\* the record in hand has a text, and response.format returns a delta for it
\* in this step
EmitsText ==
    /\ StreamFormat
    /\ pc' = "formatted"
    /\ delta'.kind # "none"
    /\ ChunkContent(chunk).kind = "text"

\* the record in hand is an "other" record whose text holds glm_block
ContinuesToolCall ==
    ChunkPhase(chunk) = "other" /\ HoldsGlmBlock(ChunkContent(chunk).text)

\* the record in hand is an answer record that enters the extraction and whose
\* close marker is followed by text
ClosesAndGoesOn ==
    LET text == ChunkContent(chunk).text
    IN /\ ChunkPhase(chunk) = "answer"
       /\ Extracts("answer", text)
       /\ Matched(Canonical("answer", text))
       /\ NotBlank(After(Canonical("answer", text)))

\* the decisions of this step read the phase memory as it was before the step
\* (phaseBak), and the memory after the step (phaseBak') is the phase of the
\* record, tool_call when it was reclassified
ReadsThenWrites ==
    LET text == ChunkContent(chunk).text
        canonical == Canonical("answer", text)
    IN /\ phaseBak' = IF ContinuesToolCall /\ phaseBak = "tool_call" THEN "tool_call"
                      ELSE ChunkPhase(chunk)
       /\ ContinuesToolCall => (delta'.kind = "tool_call" <=> phaseBak = "tool_call")
       /\ ClosesAndGoesOn =>
             canon' = IF phaseBak = "thinking"
                         THEN <<Nl, Nl, ReasoningClose, Nl, Nl>> \o LStripNl(After(canonical))
                      ELSE IF phaseBak = "answer" THEN <<>>
                      ELSE canonical

\* C31: for every record that response.format returns a delta for, the
\* reclassification and the boundary splice read the phase that the record
\* formatted before left in the phase memory, and the memory holds the phase
\* of the record (tool_call when reclassified) after the text was computed;
\* nothing but such a call changes the memory.
C31_PhaseMemoryOrdering ==
    [][/\ EmitsText => ReadsThenWrites
       /\ phaseBak' # phaseBak =>
             StreamFormat /\ pc' = "formatted" /\ delta'.kind # "none"]_vars

\* an answer record that closes the thinking block and goes on was formatted
\* after a thinking record: its text is the boundary splice, which the phase
\* answer that the memory holds now would have suppressed
C31_Witness ==
    /\ Formatted("answer")
    /\ ChunkContent(chunk).text = Closing
    /\ phaseWas = "thinking"
    /\ phaseBak = "answer"
    /\ canon = <<Nl, Nl, ReasoningClose, Nl, Nl, "w", SummaryClose>>

\* an "other" record (or one without phase) whose text holds glm_block has
\* just been formatted
FormattedWrapper ==
    /\ pc = "formatted"
    /\ chunk.shape = "keyed"
    /\ ChunkPhase(chunk) = "other"
    /\ ChunkContent(chunk).kind = "text"
    /\ HoldsGlmBlock(ChunkContent(chunk).text)

\* C32: an "other" record whose text holds the wrapper marker is returned as
\* a tool_call delta, with tool_call left in the phase memory, exactly when
\* the phase memory held tool_call; with any other phase in the memory it is
\* returned as a content delta with its text as it came, and the memory
\* holds other.
C32_ToolCallContinuation ==
    FormattedWrapper =>
        IF phaseWas = "tool_call"
           THEN /\ delta.kind = "tool_call"
                /\ phaseBak = "tool_call"
           ELSE /\ delta.kind = "content"
                /\ delta.text = ChunkContent(chunk).text
                /\ phaseBak = "other"

\* an "other" record with the wrapper marker came after a tool_call record
\* and was returned as a tool_call delta
C32_Witness ==
    /\ FormattedWrapper
    /\ chunk.phase = "other"
    /\ phaseWas = "tool_call"
    /\ delta.kind = "tool_call"
    /\ phaseBak = "tool_call"

(* ------------------------------------------------------------------ *)
(* Claims about the locks                                               *)
(* ------------------------------------------------------------------ *)

\* thread t holds lock l
Holds(t, l) == locks[l] = t

\* thread t is inside a call of the network or of the file system
InIO(t) == threads[t].in \in {"io", "held+io"}

\* thread t waits for a lock that another thread holds
Waits(t) ==
    /\ StepOf(t) \in {"pool", "metrics", "pool+io"}
    /\ threads[t].in = "out"
    /\ locks[LockOf(StepOf(t))] # Free

\* thread t is between two of its calls, or handles no request
Outside(t) == threads[t].in = "out"

\* C33: no thread is inside a call of the network or the file system while
\* it holds the lock of the pool or the lock of the metrics; no thread holds
\* both locks; a thread that is outside the methods of the pool and of the
\* metrics (their block left by its end or by an exception) holds no lock;
\* and whenever a thread waits for a lock, another thread is not waiting and
\* can take its step, so the threads never all wait.
C33_LockDiscipline ==
    /\ \A t \in Threads, l \in Locks : InIO(t) => ~Holds(t, l)
    /\ \A t \in Threads : ~(Holds(t, "pool") /\ Holds(t, "metrics"))
    /\ \A t \in Threads, l \in Locks : Outside(t) => ~Holds(t, l)
    /\ \A t \in Threads : Waits(t) => \E u \in Threads \ {t} : ~Waits(u) /\ Holds(u, LockOf(StepOf(t)))

\* one thread writes the state file after update() and tokens() while the
\* other is inside a method of the pool with its lock: the writer holds no
\* lock
C33_Witness ==
    /\ threads["t1"].script = UpdateScript
    /\ threads["t1"].at = 3
    /\ threads["t1"].in = "io"
    /\ threads["t2"].script = ChatScript
    /\ Holds("t2", "pool")
    /\ ~Holds("t1", "pool")

(* ------------------------------------------------------------------ *)
(* Claims about the records of the calls                                *)
(* ------------------------------------------------------------------ *)

\* no call of the upstream is under way
CallsCompleted == call.pc \in {"idle", "done", "failed"}

\* C34: after the calls of the upstream have completed, the metrics hold one
\* record for each call: total_requests is the number of calls, and so is
\* the sum of the successes and the failures counted.
C34_OneRecordPerCall ==
    CallsCompleted =>
        /\ request_metrics.total_requests = call.n
        /\ request_metrics.success_requests + request_metrics.failure_requests = call.n

\* C35: a call of _finalize_upstream_response for a response that was
\* finalized before, on whatever path and with whatever error, records no
\* metric and marks nothing in the pool.
C35_FinalizeOnce ==
    [][\A error \in ExcTexts :
          CallFinalizeAgain(error) => UNCHANGED <<request_metrics, poolVars>>]_vars

\* a response with a credential of the pool went through the non-200 branch
\* and was finalized twice: the metrics hold the record of chat() and one of
\* the finalization, and the credential has one failure
C35_Witness ==
    /\ call.pc = "done"
    /\ call.path = "non200"
    /\ call.finals = 2
    /\ FromPool
    /\ call.was.contained
    /\ request_metrics.total_requests = 2
    /\ DictGet(failures, call.token_info.token, 0) = 1

(* ------------------------------------------------------------------ *)
(* Claims about the failure counts                                      *)
(* ------------------------------------------------------------------ *)

\* the failures of c have reached the threshold and c is not cooling down:
\* its cooldown has expired, or get() has cleared it
BackWithFailures(c) ==
    /\ c \in Range(tokens)
    /\ FailCount(c) >= failure_threshold
    /\ ~IsCooling(disabled, c, now)

\* C36: the failure count of a credential gets smaller only in a
\* mark_success of that credential or in an update that removes it; get()
\* (with its reset when nothing is available) and the passing of time leave
\* every failure count as it is; and one mark_failure of a credential whose
\* failures had reached the threshold and that is not cooling down any more
\* puts it into cooldown again.
C36_FailuresKept ==
    [][/\ \A c \in Creds :
             DictGet(failures', c, 0) < FailCount(c) =>
                 \/ MarkSuccess(c)
                 \/ c \in Range(tokens) /\ c \notin Range(tokens')
       /\ (Get \/ Tick) => failures' = failures
       /\ \A c \in Creds :
             (BackWithFailures(c) /\ MarkFailure(c)) => IsCooling(disabled', c, now')]_vars

\* get() returned a credential whose failures had reached the threshold, and
\* the next call, mark_failure of it, has put it into cooldown again with one
\* failure more
C36_Witness ==
    /\ last.op = "again"
    /\ IsCooling(disabled, last.list[1], now)
    /\ FailCount(last.list[1]) > failure_threshold

(* ------------------------------------------------------------------ *)
(* Claims about the counters of RequestMetrics                          *)
(* ------------------------------------------------------------------ *)

\* the sum of one counter over the keys of the per-key counters
RECURSIVE SumOver(_, _, _)
SumOver(stats, keys, field) ==
    IF keys = {} THEN 0
    ELSE LET k == CHOOSE x \in keys : TRUE
         IN stats[k][field] + SumOver(stats, keys \ {k}, field)

SumStats(field) ==
    SumOver(request_metrics.token_stats, DOMAIN request_metrics.token_stats, field)

\* C37: after any calls of record(), each of which runs under the lock of the
\* instance, total_requests = success_requests + failure_requests, the
\* per-key success counters add up to success_requests, the per-key failure
\* counters add up to failure_requests, and the buffer holds
\* min(total_requests, 100) entries.
C37_CountersConsistent ==
    LET m == request_metrics
    IN /\ m.total_requests = m.success_requests + m.failure_requests
       /\ SumStats("success") = m.success_requests
       /\ SumStats("failure") = m.failure_requests
       /\ Len(m.recent_requests) = Min(m.total_requests, RecentMax)

\* more calls than the buffer holds, successes and failures among them, under
\* two keys that both have a failure
C37_Witness ==
    LET m == request_metrics
    IN /\ m.total_requests > RecentMax
       /\ Len(m.recent_requests) = RecentMax
       /\ m.failure_requests >= 2
       /\ m.success_requests > RecentMax - MaxMixed
       /\ Cardinality({k \in DOMAIN m.token_stats : m.token_stats[k].failure > 0}) = 2

(* ------------------------------------------------------------------ *)
(* Claims about the calls that change the health of the pool            *)
(* ------------------------------------------------------------------ *)

\* the steps that report the outcome of a call: chat() after requests.post
\* raised, and _finalize_upstream_response
Reports ==
    \/ \E error \in ExcTexts :
          CallPostRaises(error) \/ CallStreamRaises(error) \/ CallFinalizeAgain(error)
    \/ CallNon200
    \/ CallStreamEnd
    \/ CallCancel

\* the failure counts, the success counts, disabled_at and the cursor
PoolHealth == <<failures, successes, disabled, index>>

\* token() did not have the credential of the call from the pool
NotFromPool ==
    \/ call.token_info.source \in {"static", "anonymous"}
    \/ call.token_info.token = ""

\* C38 as stated: reporting the outcome of a call made with a static or
\* anonymous credential, or with none, leaves the failure counts, the success
\* counts, disabled_at and the cursor of the pool unchanged.
C38_PoolCredentialsOnly ==
    [][(Reports /\ NotFromPool) => UNCHANGED PoolHealth]_vars

\* C38, amended: reporting the outcome of a call whose credential the pool
\* does not hold at that moment, whatever its source, or of a call without
\* credential, leaves the failure counts, the success counts, disabled_at and
\* the cursor of the pool unchanged.
C38_HeldCredentialsOnly ==
    [][(Reports /\ ~PoolContains(call.token_info.token)) => UNCHANGED PoolHealth]_vars

\* the outcome of a call with a static credential was reported while the
\* pool, which has credentials, did not hold it: nothing was marked
C38_Witness ==
    /\ call.pc \in {"done", "failed"}
    /\ call.token_info.source = "static"
    /\ ~PoolContains(call.token_info.token)
    /\ tokens # <<>>
    /\ call.mark = "none"
    /\ call.metric # NoEntry

(* ------------------------------------------------------------------ *)
(* Claims about the phase memory from one stream to the next            *)
(* ------------------------------------------------------------------ *)

\* a stream is opened, or ends, with or without an exception
AtBoundary == StreamOpen \/ StreamEnd \/ StreamAbort

\* response.format is called with the first record of a stream that is not
\* the first one, after some record with a text
FirstOfLater ==
    StreamFormat /\ boundary.n = 2 /\ boundary.events = 0 /\ boundary.left # "none"

\* response.format is called, in a stream opened when the phase memory held
\* answer, with the first answer record of the stream that closes the
\* thinking block and goes on
FirstCloseAfterAnswer ==
    /\ StreamFormat
    /\ boundary.n = 2
    /\ boundary.left = "answer"
    /\ ~boundary.closed
    /\ ClosesWithText(chunk)

====
